---------------------------- MODULE Spec2Model ----------------------------
(***************************************************************************)
(* Model of the outbound handler (app/proxyman/outbound/handler.go) and of *)
(* the SOCKS server handshake (package socks, held in infra/conf/http.go). *)
(*                                                                         *)
(* Ten state machines share the module:                                    *)
(*   SpecDispatch  - one flow through Handler.Dispatch of a handler built  *)
(*                   by NewHandler;                                        *)
(*   SpecSocks     - one ServerSession.Handshake over a byte stream whose  *)
(*                   bytes are chosen when they are read;                  *)
(*   SpecClient    - one ClientHandshake against replies chosen when they  *)
(*                   are read;                                             *)
(*   SpecUdp       - one datagram through EncodeUDPPacket and              *)
(*                   DecodeUDPPacket;                                      *)
(*   SpecDial      - one Handler.Dial call with its collaborators;         *)
(*   SpecRandom    - one ParseRandomIP call;                               *)
(*   SpecClose     - one Handler.Close call on a handler built by          *)
(*                   NewHandler;                                           *)
(*   SpecWriter    - one UDPWriter.WriteMultiBuffer call;                  *)
(*   SpecCred      - one username/password frame from ClientHandshake to   *)
(*                   ReadUsernamePassword;                                 *)
(*   SpecPair      - ClientHandshake and ServerSession.Handshake at the    *)
(*                   two ends of one connection.                           *)
(*                                                                         *)
(* Optional values (Go nil pointers and nil maps) are records or flags     *)
(* with an explicit presence field.  Strings on the wire are sequences of  *)
(* bytes.  Go errors are chains (outermost first), <<>> being nil.         *)
(***************************************************************************)
EXTENDS Integers, Sequences, FiniteSets, TLC

VARIABLES
    \* ---- outbound handler -------------------------------------------
    ms,        \* MultiplexSettings handed to NewHandler
    h,         \* the Handler built by NewHandler: mux, xudp, udp443
    ob,        \* the last outbound record of the flow's context
    dpc,       \* position of the Dispatch call
    dlog,      \* calls Dispatch has made on its collaborators, in order
    link,      \* the transport.Link of the flow, as Dispatch leaves it
    derr,      \* the error the pool or the proxy returned to Dispatch
    \* ---- SOCKS server session ---------------------------------------
    cfg,       \* ServerConfig of the session
    spc,       \* position of the Handshake call
    nread,     \* number of bytes taken from the reader so far
    out,       \* frames written to the writer, in order
    hs,        \* what the handshake has parsed so far
    ret,       \* what Handshake returned: request or error
    \* ---- SOCKS client handshake -------------------------------------
    cl,        \* one ClientHandshake call: request, position, frames, result
    \* ---- UDP relay codec --------------------------------------------
    ud,        \* one datagram through EncodeUDPPacket / DecodeUDPPacket
    \* ---- Handler.Dial -----------------------------------------------
    dl,        \* one Dial call: settings, context, position, calls made
    \* ---- ParseRandomIP ----------------------------------------------
    rip,       \* one ParseRandomIP call: address, prefix, result
    \* ---- Handler.Close ----------------------------------------------
    hc,        \* one Close call on a handler: position, closes made, result
    \* ---- UDPWriter --------------------------------------------------
    uw,        \* one WriteMultiBuffer call: chunks, datagrams written, result
    \* ---- user name and password frame -------------------------------
    cr         \* one account through the client's frame and the server's reader

dvars == <<ms, h, ob, dpc, dlog, link, derr>>
svars == <<cfg, spc, nread, out, hs, ret>>
xvars == <<cl, ud, dl, rip>>
yvars == <<hc, uw, cr>>
vars  == <<ms, h, ob, dpc, dlog, link, derr, cfg, spc, nread, out, hs, ret, cl, ud, dl, rip,
           hc, uw, cr>>

-----------------------------------------------------------------------------
(* Bounds of the model *)

\* largest concurrency / xudpConcurrency value a configuration carries
MaxConcurrencyCfg == 2

-----------------------------------------------------------------------------
(* Outbound handler: construction *)

DefaultConcurrency == 8
MaxConnection == 128

\* a nil *mux.ClientManager
NoManager == [present |-> FALSE, Enabled |-> FALSE, MaxConcurrency |-> 0, MaxConnection |-> 0]

\* &mux.ClientManager{Enabled: false}
DisabledManager == [present |-> TRUE, Enabled |-> FALSE, MaxConcurrency |-> 0, MaxConnection |-> 0]

\* &mux.ClientManager{Enabled: true, Picker: ... Strategy{MaxConcurrency: c, MaxConnection: 128}}
EnabledManager(c) == [present |-> TRUE, Enabled |-> TRUE, MaxConcurrency |-> c, MaxConnection |-> MaxConnection]

\* the udp443 policy strings a configuration may carry
Udp443Values == {"reject", "skip", "allow", ""}

\* senderSettings.MultiplexSettings; present = FALSE is a nil pointer
\* (or nil sender settings)
MultiplexSettings ==
    [present : {TRUE}, Enabled : BOOLEAN,
     Concurrency : -1 .. MaxConcurrencyCfg,
     XudpConcurrency : -1 .. MaxConcurrencyCfg,
     XudpProxyUDP443 : Udp443Values]
    \cup
    {[present |-> FALSE, Enabled |-> FALSE, Concurrency |-> 0,
      XudpConcurrency |-> 0, XudpProxyUDP443 |-> ""]}

\* handler.go 122-142: the TCP mux pool
NewMux(config) ==
    IF config.Concurrency < 0 THEN DisabledManager
    ELSE IF config.Concurrency = 0 THEN EnabledManager(DefaultConcurrency)
    ELSE EnabledManager(config.Concurrency)

\* an xudp pool decided by the rule of the TCP pool
NewXudpLikeMux(config) ==
    IF config.XudpConcurrency < 0 THEN DisabledManager
    ELSE IF config.XudpConcurrency = 0 THEN EnabledManager(DefaultConcurrency)
    ELSE EnabledManager(config.XudpConcurrency)

\* handler.go 143-163: the xudp pool
NewXudp(config) ==
    IF config.XudpConcurrency < 0 THEN DisabledManager
    ELSE IF config.XudpConcurrency = 0 THEN NoManager
    ELSE EnabledManager(config.XudpConcurrency)

\* handler.go 120-166: the mux part of NewHandler
NewHandler(config) ==
    IF config.present /\ config.Enabled
    THEN [mux |-> NewMux(config), xudp |-> NewXudp(config),
          udp443 |-> config.XudpProxyUDP443]
    ELSE [mux |-> NoManager, xudp |-> NoManager, udp443 |-> ""]

-----------------------------------------------------------------------------
(* Outbound handler: Dispatch *)

Networks == {"TCP", "UDP"}
TargetPorts == {80, 443}
TargetAddrs == {"10.0.0.1"}
\* "" is a nil OriginalTarget.Address
OriginalAddrs == {"", "10.0.0.1", "example.com"}

Outbounds ==
    [Network : Networks, Port : TargetPorts, Address : TargetAddrs,
     OriginalAddress : OriginalAddrs]

\* errors a mux.ClientManager.Dispatch may return
PoolErrs == {<<>>, <<"no available worker">>}

\* errors proxy.Process may return: nil, the three benign sentinels bare and
\* wrapped, and other failures
ProcessErrs ==
    {<<>>, <<"EOF">>, <<"ErrClosedPipe">>, <<"Canceled">>,
     <<"connection ends", "EOF">>, <<"connection ends", "Canceled">>,
     <<"connection ends", "ErrClosedPipe">>,
     <<"dial failed">>, <<"connection ends", "timeout">>}

\* errors.Is(err, target): target occurs in the chain of err
ErrIs(err, target) == \E i \in 1 .. Len(err) : err[i] = target

\* handler.go 181: the endpoint-override condition
NeedsOverride(o) ==
    /\ o.Network = "UDP"
    /\ o.OriginalAddress # ""
    /\ o.OriginalAddress # o.Address

\* the dispatch of 185-215 with the missing xudp-disabled jump: a UDP flow
\* whose xudp pool is disabled falls to the TCP mux pool
RoutePreferMux(handler, o) ==
    IF ~handler.mux.present THEN "direct"
    ELSE IF o.Network = "UDP" /\ o.Port = 443 /\ handler.udp443 = "reject" THEN "reject"
    ELSE IF o.Network = "UDP" /\ o.Port = 443 /\ handler.udp443 = "skip" THEN "direct"
    ELSE IF handler.xudp.present /\ o.Network = "UDP" /\ handler.xudp.Enabled THEN "xudp"
    ELSE IF handler.mux.Enabled THEN "mux"
    ELSE "direct"

\* the dispatch of 185-215 without the udp443 switch
RouteNoUdp443(handler, o) ==
    IF ~handler.mux.present THEN "direct"
    ELSE IF handler.xudp.present /\ o.Network = "UDP"
         THEN IF ~handler.xudp.Enabled THEN "direct" ELSE "xudp"
    ELSE IF handler.mux.Enabled THEN "mux"
    ELSE "direct"

\* handler.go 185-215: which way Dispatch takes the link
DispatchRoute(handler, o) ==
    IF ~handler.mux.present THEN "direct"
    ELSE IF o.Network = "UDP" /\ o.Port = 443 /\ handler.udp443 = "reject" THEN "reject"
    ELSE IF o.Network = "UDP" /\ o.Port = 443 /\ handler.udp443 = "skip" THEN "direct"
    ELSE IF handler.xudp.present /\ o.Network = "UDP"
         THEN IF ~handler.xudp.Enabled THEN "direct" ELSE "xudp"
    ELSE IF handler.mux.Enabled THEN "mux"
    ELSE "direct"

\* handler.go 186-193: the closure test(err), as the calls it makes
TestCalls(err) ==
    IF err # <<>>
    THEN <<"SubmitOutboundError", "LogInfo", "Interrupt(Writer)">>
    ELSE <<>>

\* the benign test by identity (err == io.EOF ...), which misses wrapped
\* errors
IsBenignBare(err) == err \in {<<"EOF">>, <<"ErrClosedPipe">>, <<"Canceled">>}

\* handler.go 218-221: EOF, closed pipe and cancellation are no failure
IsBenign(err) ==
    ErrIs(err, "EOF") \/ ErrIs(err, "ErrClosedPipe") \/ ErrIs(err, "Canceled")

\* the tail of 217-232 without the final reader interrupt
ProcessTailNoReader(err) ==
    IF err # <<>> /\ ~IsBenign(err)
    THEN <<"SubmitOutboundError", "LogInfo", "Interrupt(Writer)">>
    ELSE <<"Close(Writer)">>

\* handler.go 217-231: what Dispatch does once proxy.Process returned err
ProcessTail(err) ==
    (IF err # <<>> /\ ~IsBenign(err)
     THEN <<"SubmitOutboundError", "LogInfo", "Interrupt(Writer)">>
     ELSE <<"Close(Writer)">>)
    \o <<"Interrupt(Reader)">>

\* the state of the link's two sides after a sequence of calls
RECURSIVE ApplyCalls(_, _)
ApplyCalls(l, calls) ==
    IF calls = <<>> THEN l
    ELSE LET c == Head(calls)
             l2 == CASE c = "Interrupt(Writer)" -> [l EXCEPT !.Writer = "interrupted"]
                     [] c = "Close(Writer)"     -> [l EXCEPT !.Writer = "closed"]
                     [] c = "Interrupt(Reader)" -> [l EXCEPT !.Reader = "interrupted"]
                     [] OTHER                   -> l
         IN ApplyCalls(l2, Tail(calls))

DispatchInit ==
    /\ ms \in MultiplexSettings
    /\ h = NewHandler(ms)
    /\ ob \in Outbounds
    /\ dpc = "idle"
    /\ dlog = <<>>
    /\ link = [Writer |-> "open", Reader |-> "open", override |-> FALSE]
    /\ derr = <<>>

\* handler.go 178-216: Dispatch up to the call of a pool or of the proxy
DispatchEnter ==
    /\ dpc = "idle"
    /\ LET route == DispatchRoute(h, ob)
           l1 == [link EXCEPT !.override = NeedsOverride(ob)]
       IN CASE route = "reject" ->
                 LET calls == TestCalls(<<"XUDP rejected UDP/443 traffic">>)
                 IN /\ dlog' = dlog \o calls
                    /\ link' = ApplyCalls(l1, calls)
                    /\ dpc' = "returned"
            [] route = "xudp" ->
                 /\ dlog' = Append(dlog, "xudp.Dispatch")
                 /\ link' = l1
                 /\ dpc' = "in_pool"
            [] route = "mux" ->
                 /\ dlog' = Append(dlog, "mux.Dispatch")
                 /\ link' = l1
                 /\ dpc' = "in_pool"
            [] OTHER ->
                 /\ dlog' = Append(dlog, "proxy.Process")
                 /\ link' = l1
                 /\ dpc' = "in_process"
    /\ UNCHANGED <<ms, h, ob, derr, svars, xvars, yvars>>

\* a pool dispatch whose error path forgets to return and runs on into the
\* direct path
PoolReturnFallThrough ==
    /\ dpc = "in_pool"
    /\ \E err \in PoolErrs :
         LET calls == TestCalls(err)
         IN /\ dlog' = dlog \o calls \o (IF err # <<>> THEN <<"proxy.Process">> ELSE <<>>)
            /\ link' = ApplyCalls(link, calls)
            /\ derr' = err
            /\ dpc' = IF err # <<>> THEN "in_process" ELSE "returned"
    /\ UNCHANGED <<ms, h, ob, svars, xvars, yvars>>

\* handler.go 207-208, 211-212: the pool's Dispatch returns, test(err), return
PoolReturn ==
    /\ dpc = "in_pool"
    /\ \E err \in PoolErrs :
         LET calls == TestCalls(err)
         IN /\ dlog' = dlog \o calls
            /\ link' = ApplyCalls(link, calls)
            /\ derr' = err
    /\ dpc' = "returned"
    /\ UNCHANGED <<ms, h, ob, svars, xvars, yvars>>

\* handler.go 216-232: proxy.Process returns and Dispatch finishes the link
ProcessReturn ==
    /\ dpc = "in_process"
    /\ \E err \in ProcessErrs :
         LET calls == ProcessTail(err)
         IN /\ dlog' = dlog \o calls
            /\ link' = ApplyCalls(link, calls)
            /\ derr' = err
    /\ dpc' = "returned"
    /\ UNCHANGED <<ms, h, ob, svars, xvars, yvars>>

DispatchNext == DispatchEnter \/ PoolReturn \/ ProcessReturn
-----------------------------------------------------------------------------
(* SOCKS: constants of the protocol *)

socks5Version == 5
socks4Version == 4
cmdTCPConnect == 1
cmdTCPBind == 2
cmdUDPAssociate == 3
cmdTorResolve == 240
cmdTorResolvePTR == 241
socks4RequestGranted == 90
socks4RequestRejected == 91
authNotRequired == 0
authPassword == 2
authNoMatchingMethod == 255
statusSuccess == 0
statusCmdNotSupport == 7
ValidKey == 1

-----------------------------------------------------------------------------
(* SOCKS: the inputs a byte stream may carry *)

\* longest user name, password, key, user-id or domain on the wire
MaxNameLen == 1
\* largest nMethod byte of a SOCKS5 greeting
MaxMethods == 2

NameBytes == {97}

RECURSIVE SeqsUpTo(_, _)
SeqsUpTo(S, n) ==
    IF n = 0 THEN {<<>>}
    ELSE LET shorter == SeqsUpTo(S, n - 1)
         IN shorter \cup {Append(q, x) : q \in {r \in shorter : Len(r) = n - 1}, x \in S}

\* strings read from the wire
Strs == SeqsUpTo(NameBytes, MaxNameLen)

\* first byte of the stream: SOCKS4, SOCKS5 and two versions that are neither
VersionBytes == {socks4Version, socks5Version, 0, 6}

\* command bytes: CONNECT, BIND, UDP ASSOCIATE, the Tor variants, unknown ones
CmdBytes == {cmdTCPConnect, cmdTCPBind, cmdUDPAssociate, cmdTorResolve, cmdTorResolvePTR, 0, 9}

\* method bytes a client may offer
MethodBytes == {authNotRequired, authPassword}

AnyIP == [family |-> "ipv4", bytes |-> <<0, 0, 0, 0>>]
NoAddress == [family |-> "none", bytes |-> <<>>]

IPv4Addrs == {<<1, 2, 3, 4>>, <<0, 0, 0, 1>>}
WirePorts == {80, 443}

\* addresses a SOCKS5 request may carry
RequestAddrs ==
    {[family |-> "ipv4", bytes |-> <<1, 2, 3, 4>>],
     [family |-> "ipv6", bytes |-> <<0, 0, 0, 0, 0, 0, 0, 0, 0, 0, 0, 0, 0, 0, 0, 1>>],
     [family |-> "domain", bytes |-> <<97>>]}

\* address-and-port encodings a SOCKS5 request or a UDP datagram may carry:
\* IPv4, IPv6 and a domain, each with both ports
WireAddrs ==
    {<<1, 1, 2, 3, 4>> \o pb : pb \in {<<0, 80>>, <<1, 187>>}}
    \cup {<<4, 0, 0, 0, 0, 0, 0, 0, 0, 0, 0, 0, 0, 0, 0, 0, 1>> \o pb : pb \in {<<0, 80>>, <<1, 187>>}}
    \cup {<<3, 1, 97>> \o pb : pb \in {<<0, 80>>, <<1, 187>>}}

\* map[string]string accounts: nil flag and the set of <<user, password>>
AccountMaps ==
    {[nil |-> TRUE, m |-> {}],
     [nil |-> FALSE, m |-> {<<<<97>>, <<97>>>>}],
     [nil |-> FALSE, m |-> {<<<<>>, <<97>>>>}],
     [nil |-> FALSE, m |-> {<<<<97>>, <<>>>>}]}

\* map[string]int32 keys: nil flag and the set of <<key, value>>
KeyMaps ==
    {[nil |-> TRUE, m |-> {}],
     [nil |-> FALSE, m |-> {<<<<97>>, 1>>}],
     [nil |-> FALSE, m |-> {<<<<97>>, 0>>}],
     [nil |-> FALSE, m |-> {<<<<>>, 1>>, <<<<97>>, 2>>}]}

AuthTypes == {"NO_AUTH", "PASSWORD", "KEYAUTH"}

RelayAddress == [family |-> "ipv4", bytes |-> <<9, 9, 9, 9>>]
SessionAddress == [family |-> "ipv4", bytes |-> <<7, 7, 7, 7>>]
LocalAddress == [family |-> "ipv4", bytes |-> <<8, 8, 8, 8>>]

\* ServerConfig together with the fields of the ServerSession
ServerConfigs ==
    [AuthType : AuthTypes, Accounts : AccountMaps, Keys : KeyMaps,
     UdpEnabled : BOOLEAN, Address : {NoAddress, RelayAddress},
     address : {SessionAddress}, port : {1080}, localAddress : {LocalAddress}]

-----------------------------------------------------------------------------
(* SOCKS: account checks *)

MapHas(m, k) == \E e \in m : e[1] = k
MapGet(m, k) == (CHOOSE e \in m : e[1] = k)[2]

\* HasAccount that matches on the user name alone
HasAccountNameOnly(c, username, password) ==
    IF c.Accounts.nil THEN FALSE
    ELSE MapHas(c.Accounts.m, username)

\* http.go 142-151
HasAccount(c, username, password) ==
    IF c.Accounts.nil THEN FALSE
    ELSE IF ~MapHas(c.Accounts.m, username) THEN FALSE
    ELSE MapGet(c.Accounts.m, username) = password

\* http.go 158-165
ValidateKey(c, key) ==
    IF c.Keys.nil THEN FALSE
    ELSE MapHas(c.Keys.m, key) /\ MapGet(c.Keys.m, key) = ValidKey

\* http.go 294-303: the credential check of auth5
CredentialsOK(c, username, password) ==
    IF c.AuthType = "PASSWORD" THEN HasAccount(c, username, password)
    ELSE IF c.AuthType = "KEYAUTH" THEN ValidateKey(c, password)
    ELSE TRUE

\* expected method with key auth left at no-auth
ExpectedAuthPasswordOnly(c) ==
    IF c.AuthType = "PASSWORD" THEN authPassword ELSE authNotRequired

\* http.go 272-277
ExpectedAuth(c) ==
    IF c.AuthType = "PASSWORD" THEN authPassword
    ELSE IF c.AuthType = "KEYAUTH" THEN authPassword
    ELSE authNotRequired

\* http.go 464-471
hasAuthMethod(expectedAuth, authCandidates) ==
    \E i \in 1 .. Len(authCandidates) : authCandidates[i] = expectedAuth

\* a SOCKS4 guard that lets every configuration through
Socks4RefusedNever(c) == FALSE

\* http.go 216: the guard of handshake4
Socks4Refused(c) == c.AuthType = "PASSWORD"

-----------------------------------------------------------------------------
(* SOCKS: frames *)

PortBytes(p) == <<p \div 256, p % 256>>

AddressTypeByte(a) ==
    CASE a.family = "ipv4" -> 1
      [] a.family = "ipv6" -> 4
      [] OTHER -> 3

\* addrParser.WriteAddressPort: type byte, (length byte,) address, port
WriteAddressPort(a, port) ==
    <<AddressTypeByte(a)>>
    \o (IF a.family = "domain" THEN <<Len(a.bytes)>> ELSE <<>>)
    \o a.bytes \o PortBytes(port)

\* big-endian 16-bit port
PortFromBytes(b) == b[1] * 256 + b[2]

\* addrParser.ReadAddressPort on the bytes w that the reader holds: the
\* address type byte, the address (length-prefixed for a domain) and the
\* port; n is the number of bytes taken
ReadAddressPort(w) ==
    LET bad == [ok |-> FALSE, address |-> NoAddress, port |-> 0, n |-> 0]
        fixed(family, size) ==
            IF Len(w) < 1 + size + 2 THEN bad
            ELSE [ok |-> TRUE,
                  address |-> [family |-> family, bytes |-> SubSeq(w, 2, 1 + size)],
                  port |-> PortFromBytes(SubSeq(w, 2 + size, 3 + size)),
                  n |-> 1 + size + 2]
    IN IF w = <<>> THEN bad
       ELSE CASE w[1] = 1 -> fixed("ipv4", 4)
              [] w[1] = 4 -> fixed("ipv6", 16)
              [] w[1] = 3 ->
                   IF Len(w) < 2 \/ Len(w) < 2 + w[2] + 2 THEN bad
                   ELSE [ok |-> TRUE,
                         address |-> [family |-> "domain", bytes |-> SubSeq(w, 3, 2 + w[2])],
                         port |-> PortFromBytes(SubSeq(w, 3 + w[2], 4 + w[2])),
                         n |-> 2 + w[2] + 2]
              [] OTHER -> bad

\* http.go 473-475
writeSocks5AuthenticationResponse(version, auth) == <<version, auth>>

\* a SOCKS5 reply without the reserved byte
writeSocks5ResponseNoRsv(errCode, address, port) ==
    <<socks5Version, errCode>> \o WriteAddressPort(address, port)

\* http.go 477-487
writeSocks5Response(errCode, address, port) ==
    <<socks5Version, errCode, 0>> \o WriteAddressPort(address, port)

\* a SOCKS4 reply that opens with the version number 4 instead of 0
writeSocks4ResponseVN4(errCode, address, port) ==
    <<socks4Version, errCode>> \o PortBytes(port) \o address.bytes

\* http.go 489-499
writeSocks4Response(errCode, address, port) ==
    <<0, errCode>> \o PortBytes(port) \o address.bytes

\* net.ParseAddress on the strings of Strs, none of which is an IP literal
ParseAddress(domain) == [family |-> "domain", bytes |-> domain]

-----------------------------------------------------------------------------
(* SOCKS: ServerSession.Handshake *)

NoUser == [present |-> FALSE, Email |-> <<>>]
NoRequest ==
    [Version |-> 0, Command |-> "none", Address |-> NoAddress, Port |-> 0, User |-> NoUser]
NotReturned == [status |-> "running", err |-> "", request |-> NoRequest]

Failed(e) == [status |-> "err", err |-> e, request |-> NoRequest]
Succeeded(r) == [status |-> "ok", err |-> "", request |-> r]

\* a user record for every authenticated session, empty name included
RequestUserAlways(username) == [present |-> TRUE, Email |-> username]

\* http.go 337-340: the user record of the request
RequestUser(username) ==
    IF username # <<>> THEN [present |-> TRUE, Email |-> username] ELSE NoUser

\* a command switch that lets BIND through as a connect
Command5BindAsConnect(cmd, c) ==
    CASE cmd \in {cmdTCPConnect, cmdTCPBind, cmdTorResolve, cmdTorResolvePTR} -> "TCP"
      [] cmd = cmdUDPAssociate -> IF c.UdpEnabled THEN "UDP" ELSE "udp disabled"
      [] OTHER -> "unknown"

\* http.go 341-357: the command switch of handshake5
Command5(cmd, c) ==
    CASE cmd \in {cmdTCPConnect, cmdTorResolve, cmdTorResolvePTR} -> "TCP"
      [] cmd = cmdUDPAssociate -> IF c.UdpEnabled THEN "UDP" ELSE "udp disabled"
      [] cmd = cmdTCPBind -> "bind"
      [] OTHER -> "unknown"

\* a reply that always carries the session's own address
ResponseAddressSession(command, c) == c.address

\* http.go 368-379: the bind address of the success reply
ResponseAddress(command, c) ==
    IF command = "UDP"
    THEN IF c.Address # NoAddress THEN c.Address ELSE c.localAddress
    ELSE c.address

\* what the request of a client may carry after its first three bytes: an
\* address and port, or the 0.0.0.0:0 of a UDP ASSOCIATE (http.go 648)
RequestWires == WireAddrs \cup {<<1, 0, 0, 0, 0, 0, 0>>}

SocksInit ==
    /\ cfg \in ServerConfigs
    /\ spc = "start"
    /\ nread = 0
    /\ out = <<>>
    /\ hs = [version |-> 0, b1 |-> 0, port |-> 0, address |-> NoAddress,
             methods |-> <<>>, username |-> <<>>, password |-> <<>>,
             checked |-> "none", cmd |-> 0, wire |-> <<>>]
    /\ ret = NotReturned

\* a read that cannot be completed: ReadFullFrom fails and the function
\* returns e without writing
ReadFails(e) ==
    /\ ret' = Failed(e)
    /\ spc' = "done"
    /\ UNCHANGED <<cfg, nread, out, hs>>

\* http.go 388-407 and 215-219: the first two bytes, the version switch and,
\* for SOCKS4, the guard at the head of handshake4
HandshakeStart ==
    /\ spc = "start"
    /\ UNCHANGED <<dvars, xvars, yvars>>
    /\ \/ ReadFails("insufficient header")
       \/ \E version \in VersionBytes :
          \E b \in (IF version = socks5Version THEN 0 .. MaxMethods ELSE CmdBytes) :
            /\ nread' = nread + 2
            /\ hs' = [hs EXCEPT !.version = version, !.b1 = b]
            /\ CASE version = socks4Version ->
                      IF Socks4Refused(cfg)
                      THEN /\ out' = Append(out, writeSocks4Response(socks4RequestRejected, AnyIP, 0))
                           /\ ret' = Failed("socks 4 is not allowed when auth is required.")
                           /\ spc' = "done"
                      ELSE /\ spc' = "h4_block"
                           /\ UNCHANGED <<out, ret>>
                 [] version = socks5Version ->
                      /\ spc' = "auth5_methods"
                      /\ UNCHANGED <<out, ret>>
                 [] OTHER ->
                      /\ ret' = Failed("unknown Socks version")
                      /\ spc' = "done"
                      /\ UNCHANGED out
            /\ UNCHANGED cfg

\* http.go 224-233: the 6-byte block of port and IPv4 address
H4ReadBlock ==
    /\ spc = "h4_block"
    /\ UNCHANGED <<dvars, xvars, yvars>>
    /\ \/ ReadFails("insufficient header")
       \/ \E p \in WirePorts, ip \in IPv4Addrs :
            /\ nread' = nread + 6
            /\ hs' = [hs EXCEPT !.port = p, !.address = [family |-> "ipv4", bytes |-> ip]]
            /\ spc' = "h4_userid"
            /\ UNCHANGED <<cfg, out, ret>>

\* http.go 246-261: the command switch that ends handshake4
H4Finish(address) ==
    IF hs.b1 = cmdTCPConnect
    THEN /\ out' = Append(out, writeSocks4Response(socks4RequestGranted, AnyIP, 0))
         /\ \/ ret' = Succeeded([Version |-> socks4Version, Command |-> "TCP",
                                 Address |-> address, Port |-> hs.port, User |-> NoUser])
            \/ ret' = Failed("write failed")
         /\ spc' = "done"
    ELSE /\ out' = Append(out, writeSocks4Response(socks4RequestRejected, AnyIP, 0))
         /\ ret' = Failed("unsupported command")
         /\ spc' = "done"

\* http.go 235-238, 246-261: the user id, then either the command switch or,
\* for SOCKS4a, on to the domain
H4ReadUserId ==
    /\ spc = "h4_userid"
    /\ UNCHANGED <<dvars, xvars, yvars>>
    /\ \/ ReadFails("EOF")
       \/ ReadFails("buffer overrun")
       \/ \E userid \in Strs :
            /\ nread' = nread + Len(userid) + 1
            /\ IF hs.address.bytes[1] = 0
               THEN /\ spc' = "h4_domain"
                    /\ UNCHANGED <<out, ret>>
               ELSE H4Finish(hs.address)
            /\ UNCHANGED <<cfg, hs>>

\* http.go 239-261: the SOCKS4a domain and the command switch
H4ReadDomain ==
    /\ spc = "h4_domain"
    /\ UNCHANGED <<dvars, xvars, yvars>>
    /\ \/ ReadFails("failed to read domain for socks 4a")
       \/ \E domain \in Strs :
            /\ nread' = nread + Len(domain) + 1
            /\ hs' = [hs EXCEPT !.address = ParseAddress(domain)]
            /\ H4Finish(ParseAddress(domain))
            /\ UNCHANGED cfg

\* http.go 264-286, 312-314: the method candidates and the method reply
Auth5Methods ==
    /\ spc = "auth5_methods"
    /\ UNCHANGED <<dvars, xvars, yvars>>
    /\ \/ ReadFails("failed to read auth methods")
       \/ \E methods \in {q \in SeqsUpTo(MethodBytes, MaxMethods) : Len(q) = hs.b1} :
            LET expectedAuth == ExpectedAuth(cfg)
            IN /\ nread' = nread + hs.b1
               /\ hs' = [hs EXCEPT !.methods = methods]
               /\ IF ~hasAuthMethod(expectedAuth, methods)
                  THEN /\ out' = Append(out, writeSocks5AuthenticationResponse(socks5Version, authNoMatchingMethod))
                       /\ ret' = Failed("no matching auth method")
                       /\ spc' = "done"
                  ELSE /\ out' = Append(out, writeSocks5AuthenticationResponse(socks5Version, expectedAuth))
                       /\ \/ /\ ret' = Failed("failed to write auth response")
                             /\ spc' = "done"
                          \/ /\ spc' = IF expectedAuth = authPassword THEN "auth5_cred" ELSE "request5"
                             /\ UNCHANGED ret
               /\ UNCHANGED cfg

\* http.go 288-311 with 409-442: the user name and password and their check
Auth5Credentials ==
    /\ spc = "auth5_cred"
    /\ UNCHANGED <<dvars, xvars, yvars>>
    /\ \/ ReadFails("failed to read username and password for authentication")
       \/ \E username \in Strs, password \in Strs :
            /\ nread' = nread + 2 + Len(username) + 1 + Len(password)
            /\ IF ~CredentialsOK(cfg, username, password)
               THEN /\ hs' = [hs EXCEPT !.username = username, !.password = password,
                                        !.checked = "failed"]
                    /\ out' = Append(out, writeSocks5AuthenticationResponse(1, 255))
                    /\ ret' = Failed(IF cfg.AuthType = "PASSWORD"
                                     THEN "invalid username or password" ELSE "invalid key")
                    /\ spc' = "done"
               ELSE /\ hs' = [hs EXCEPT !.username = username, !.password = password,
                                        !.checked = "ok"]
                    /\ out' = Append(out, writeSocks5AuthenticationResponse(1, 0))
                    /\ \/ /\ ret' = Failed("failed to write auth response")
                          /\ spc' = "done"
                       \/ /\ spc' = "request5"
                          /\ UNCHANGED ret
            /\ UNCHANGED cfg

\* http.go 326-359: version, command and reserved byte of the request
Request5 ==
    /\ spc = "request5"
    /\ UNCHANGED <<dvars, xvars, yvars>>
    /\ \/ ReadFails("failed to read request")
       \/ \E cmd \in CmdBytes :
            LET command == Command5(cmd, cfg)
            IN /\ nread' = nread + 3
               /\ hs' = [hs EXCEPT !.cmd = cmd]
               /\ IF command \in {"TCP", "UDP"}
                  THEN /\ spc' = "address5"
                       /\ UNCHANGED <<out, ret>>
                  ELSE /\ out' = Append(out, writeSocks5Response(statusCmdNotSupport, AnyIP, 0))
                       /\ ret' = Failed(CASE command = "udp disabled" -> "UDP is not enabled."
                                          [] command = "bind" -> "TCP bind is not supported."
                                          [] OTHER -> "unknown command")
                       /\ spc' = "done"
               /\ UNCHANGED cfg

\* http.go 361-384: the target address and the success reply
Address5 ==
    /\ spc = "address5"
    /\ UNCHANGED <<dvars, xvars, yvars>>
    /\ \/ ReadFails("failed to read address")
       \/ \E w \in RequestWires :
            LET command == Command5(hs.cmd, cfg)
                r == ReadAddressPort(w)
                a == r.address
                p == r.port
            IN /\ r.ok
               /\ nread' = nread + r.n
               /\ hs' = [hs EXCEPT !.address = a, !.port = p, !.wire = SubSeq(w, 1, r.n)]
               /\ out' = Append(out, writeSocks5Response(statusSuccess,
                                         ResponseAddress(command, cfg), cfg.port))
               /\ \/ ret' = Failed("write failed")
                  \/ ret' = Succeeded([Version |-> socks5Version, Command |-> command,
                                       Address |-> a, Port |-> p,
                                       User |-> RequestUser(hs.username)])
               /\ spc' = "done"
               /\ UNCHANGED cfg

SocksNext ==
    \/ HandshakeStart
    \/ H4ReadBlock
    \/ H4ReadUserId
    \/ H4ReadDomain
    \/ Auth5Methods
    \/ Auth5Credentials
    \/ Request5
    \/ Address5

-----------------------------------------------------------------------------
(* SOCKS: the client handshake (ClientHandshake, http.go 593-687) *)

\* *Account of request.User, nil when the request carries no user
NoAccount == [present |-> FALSE, Username |-> <<>>, Password |-> <<>>]
ClientAccounts ==
    {NoAccount} \cup {[present |-> TRUE, Username |-> u, Password |-> p] : u, p \in Strs}

\* the requests handed to ClientHandshake
ClientRequests ==
    [Command : {"TCP", "UDP"},
     Address : {[family |-> "ipv4", bytes |-> <<1, 2, 3, 4>>], [family |-> "domain", bytes |-> <<97>>]},
     Port : {443},
     User : ClientAccounts]

\* bytes a server may send: the first byte of the method selection and of
\* the request reply, the first byte of the auth status, the method, the
\* auth status and the reply status
ReplyVersionBytes == {socks5Version, socks4Version}
AuthVersionBytes == {1, socks5Version}
ReplyMethodBytes == {authNotRequired, authPassword, authNoMatchingMethod}
AuthStatusBytes == {0, 1, 255}
ReplyStatusBytes == {statusSuccess, statusCmdNotSupport}

\* what a success reply may carry after its first three bytes: an address
\* and port, among them the bind addresses of ServerSession (http.go 368-380)
ReplyWires ==
    WireAddrs \cup {WriteAddressPort(a, 1080) : a \in {SessionAddress, RelayAddress, LocalAddress}}

\* http.go 594-597
AuthByte(request) == IF request.User.present THEN authPassword ELSE authNotRequired

\* http.go 602
ClientGreeting(request) == <<socks5Version, 1, AuthByte(request)>>

\* http.go 622-626: the length bytes are byte(len(...))
ClientCredentials(account) ==
    <<1, Len(account.Username) % 256>> \o account.Username
    \o <<Len(account.Password) % 256>> \o account.Password

\* a request that ends after the reserved byte for UDP ASSOCIATE
ClientRequestFrameNoUdpAddress(request) ==
    IF request.Command = "UDP"
    THEN <<socks5Version, cmdUDPAssociate, 0>>
    ELSE <<socks5Version, cmdTCPConnect, 0>> \o WriteAddressPort(request.Address, request.Port)

\* http.go 642-653
ClientRequestFrame(request) ==
    IF request.Command = "UDP"
    THEN <<socks5Version, cmdUDPAssociate, 0>> \o <<1, 0, 0, 0, 0, 0, 0>>
    ELSE <<socks5Version, cmdTCPConnect, 0>> \o WriteAddressPort(request.Address, request.Port)

\* a check of the method selection that looks at the version only
MethodSelectionErrorVersionOnly(b, request) ==
    IF b[1] # socks5Version THEN "unexpected server version" ELSE ""

\* http.go 612-617: the error of the method-selection reply b, "" if none
MethodSelectionError(b, request) ==
    IF b[1] # socks5Version THEN "unexpected server version"
    ELSE IF b[2] # AuthByte(request) THEN "auth method not supported."
    ELSE ""

\* http.go 635-637: only the status byte of the auth reply is looked at
AuthStatusError(b) == IF b[2] # 0 THEN "server rejects account" ELSE ""

\* http.go 664-667: only the status byte of the request reply is looked at
ReplyStatusError(b) == IF b[2] # 0 THEN "server rejects request" ELSE ""

ClientInit ==
    \E request \in ClientRequests :
        cl = [request |-> request, pc |-> "start", out |-> <<>>, rd |-> <<>>, ret |-> NotReturned]

ClientFails(c, e) == cl' = [c EXCEPT !.pc = "done", !.ret = Failed(e)]

\* a write of frame f followed by the wait for the reply at position next
ClientWrites(c, f, next) ==
    LET w == [c EXCEPT !.out = Append(@, f)]
    IN \/ ClientFails(w, "write failed")
       \/ cl' = [w EXCEPT !.pc = next]

\* http.go 594-605: the greeting
ClientStart ==
    /\ cl.pc = "start"
    /\ UNCHANGED <<dvars, svars, ud, dl, rip, yvars>>
    /\ ClientWrites(cl, ClientGreeting(cl.request), "method_reply")

\* http.go 607-629 and 640-657: the method selection, then the credentials
\* or the request
ClientMethodReply ==
    /\ cl.pc = "method_reply"
    /\ UNCHANGED <<dvars, svars, ud, dl, rip, yvars>>
    /\ \/ ClientFails(cl, "read failed")
       \/ \E v \in ReplyVersionBytes, m \in ReplyMethodBytes :
            LET b == <<v, m>>
                c == [cl EXCEPT !.rd = Append(@, b)]
                e == MethodSelectionError(b, cl.request)
            IN IF e # "" THEN ClientFails(c, e)
               ELSE IF AuthByte(cl.request) = authPassword
               THEN ClientWrites(c, ClientCredentials(cl.request.User), "auth_reply")
               ELSE ClientWrites(c, ClientRequestFrame(cl.request), "request_reply")

\* http.go 631-657: the auth status, then the request
ClientAuthReply ==
    /\ cl.pc = "auth_reply"
    /\ UNCHANGED <<dvars, svars, ud, dl, rip, yvars>>
    /\ \/ ClientFails(cl, "read failed")
       \/ \E v \in AuthVersionBytes, st \in AuthStatusBytes :
            LET b == <<v, st>>
                c == [cl EXCEPT !.rd = Append(@, b)]
                e == AuthStatusError(b)
            IN IF e # "" THEN ClientFails(c, e)
               ELSE ClientWrites(c, ClientRequestFrame(cl.request), "request_reply")

\* http.go 659-667: the first three bytes of the reply
ClientRequestReply ==
    /\ cl.pc = "request_reply"
    /\ UNCHANGED <<dvars, svars, ud, dl, rip, yvars>>
    /\ \/ ClientFails(cl, "read failed")
       \/ \E v \in ReplyVersionBytes, st \in ReplyStatusBytes :
            LET b == <<v, st, 0>>
                c == [cl EXCEPT !.rd = Append(@, b)]
                e == ReplyStatusError(b)
            IN IF e # "" THEN ClientFails(c, e)
               ELSE cl' = [c EXCEPT !.pc = "bound_address"]

\* http.go 669-686: the bound address of the reply and the result
ClientBoundAddress ==
    /\ cl.pc = "bound_address"
    /\ UNCHANGED <<dvars, svars, ud, dl, rip, yvars>>
    /\ \/ ClientFails(cl, "failed to read address")
       \/ \E w \in ReplyWires :
            LET r == ReadAddressPort(w)
                c == [cl EXCEPT !.rd = Append(@, SubSeq(w, 1, r.n))]
            IN /\ r.ok
               /\ cl' = [c EXCEPT !.pc = "done",
                                  !.ret = IF cl.request.Command = "UDP"
                                          THEN Succeeded([Version |-> socks5Version,
                                                          Command |-> "UDP",
                                                          Address |-> r.address,
                                                          Port |-> r.port,
                                                          User |-> NoUser])
                                          ELSE Succeeded(NoRequest)]

ClientNext ==
    \/ ClientStart
    \/ ClientMethodReply
    \/ ClientAuthReply
    \/ ClientRequestReply
    \/ ClientBoundAddress

-----------------------------------------------------------------------------
(* SOCKS: ClientHandshake and ServerSession.Handshake over one connection.
   The two byte streams of the connection are what each side has written:
   the frames of cl.out towards the server, the frames of out towards the
   client.  A side takes a step only if the bytes it reads are the next bytes
   of its peer's stream, and no read or write of the connection fails. *)

RECURSIVE Flatten(_)
Flatten(frames) == IF frames = <<>> THEN <<>> ELSE Head(frames) \o Flatten(Tail(frames))

ToServer == Flatten(cl.out)
ToClient == Flatten(out)

\* the errors of a failed read or write of the connection
StreamErrors ==
    {"insufficient header", "failed to read auth methods",
     "failed to read username and password for authentication",
     "failed to read request", "failed to read address",
     "failed to write auth response", "write failed", "read failed"}

\* the server's reads so far end at nread; its next bytes are bytes, of which
\* the first skip are not looked at
ServerReads(skip, bytes) ==
    /\ nread + skip + Len(bytes) <= Len(ToServer)
    /\ SubSeq(ToServer, nread + skip + 1, nread + skip + Len(bytes)) = bytes

\* http.go 388-407 on the client's greeting
PairHandshakeStart ==
    /\ HandshakeStart
    /\ ret'.err \notin StreamErrors
    /\ ServerReads(0, <<hs'.version, hs'.b1>>)

\* http.go 264-286
PairAuth5Methods ==
    /\ Auth5Methods
    /\ ret'.err \notin StreamErrors
    /\ ServerReads(0, hs'.methods)

\* http.go 288-311: ReadUsernamePassword does not look at the first byte
PairAuth5Credentials ==
    /\ Auth5Credentials
    /\ ret'.err \notin StreamErrors
    /\ ServerReads(1, <<Len(hs'.username)>> \o hs'.username
                      \o <<Len(hs'.password)>> \o hs'.password)

\* http.go 326-359: of the three bytes only the command is looked at
PairRequest5 ==
    /\ Request5
    /\ ret'.err \notin StreamErrors
    /\ ServerReads(1, <<hs'.cmd>>)
    /\ nread + 3 <= Len(ToServer)

\* http.go 361-384
PairAddress5 ==
    /\ Address5
    /\ ret'.err \notin StreamErrors
    /\ ServerReads(0, hs'.wire)

\* what the client has read is the head of what the server has written
ClientReads ==
    /\ cl'.ret.err \notin StreamErrors
    /\ LET got == Flatten(cl'.rd)
       IN /\ Len(got) <= Len(ToClient)
          /\ SubSeq(ToClient, 1, Len(got)) = got

PairClientStart == ClientStart /\ ClientReads
PairClientMethodReply == ClientMethodReply /\ ClientReads
PairClientAuthReply == ClientAuthReply /\ ClientReads
PairClientRequestReply == ClientRequestReply /\ ClientReads
PairClientBoundAddress == ClientBoundAddress /\ ClientReads

PairNext ==
    \/ PairHandshakeStart
    \/ PairAuth5Methods
    \/ PairAuth5Credentials
    \/ PairRequest5
    \/ PairAddress5
    \/ PairClientStart
    \/ PairClientMethodReply
    \/ PairClientAuthReply
    \/ PairClientRequestReply
    \/ PairClientBoundAddress

-----------------------------------------------------------------------------
(* SOCKS: the UDP relay codec (http.go 501-535) *)

\* longest payload of a datagram
MaxPayload == 2

PayloadBytes == {0, 255}
Payloads == SeqsUpTo(PayloadBytes, MaxPayload)

\* domains of one byte, of two bytes and of the greatest length, 255
UdpDomains == {[i \in 1 .. n |-> 97] : n \in {1, 2, 255}}

\* the request headers handed to EncodeUDPPacket
UdpHeaders ==
    [Address : {[family |-> "ipv4", bytes |-> <<1, 2, 3, 4>>],
                [family |-> "ipv6", bytes |-> <<0, 0, 0, 0, 0, 0, 0, 0, 0, 0, 0, 0, 0, 0, 0, 1>>]}
               \cup {[family |-> "domain", bytes |-> d] : d \in UdpDomains},
     Port : {0, 65535}]

\* datagrams as they may arrive from a client: empty, shorter than five
\* bytes, fragmented, of an unknown address type, cut inside the address,
\* well formed with and without payload
RawPackets ==
    {<<>>,
     <<0, 0, 0, 1>>,
     <<0, 0, 1, 1, 1, 2, 3, 4, 0, 80>>,
     <<0, 0, 0, 9, 1, 2, 3, 4, 0, 80>>,
     <<0, 0, 0, 1, 1, 2, 3>>,
     <<9, 9, 0, 3, 1, 97, 0, 80>>,
     <<7, 8, 2, 1, 1, 2, 3, 4, 0, 80>>,
     <<0, 0, 1>>,
     <<0, 0, 0, 3, 0>>,
     <<0, 0, 0, 1, 1, 2, 3, 4, 0, 80, 7>>}

NoDecoded == [status |-> "none", err |-> "", request |-> NoRequest, rest |-> <<>>]

\* an encoder that leaves out the three leading bytes
EncodeUDPPacketNoPrefix(request, data) ==
    WriteAddressPort(request.Address, request.Port) \o data

\* http.go 526-535
EncodeUDPPacket(request, data) ==
    <<0, 0, 0>> \o WriteAddressPort(request.Address, request.Port) \o data

\* a decoder without the test of the fragment byte
DecodeUDPPacketAnyFragment(packet) ==
    IF Len(packet) < 5
    THEN [NoDecoded EXCEPT !.status = "err", !.err = "insufficient length of packet.",
                           !.rest = packet]
    ELSE LET w == SubSeq(packet, 4, Len(packet))
             r == ReadAddressPort(w)
         IN IF ~r.ok
            THEN [NoDecoded EXCEPT !.status = "err", !.err = "failed to read UDP header",
                                   !.rest = w]
            ELSE [status |-> "ok", err |-> "",
                  request |-> [Version |-> socks5Version, Command |-> "UDP",
                               Address |-> r.address, Port |-> r.port, User |-> NoUser],
                  rest |-> SubSeq(w, r.n + 1, Len(w))]

\* http.go 501-524: the header and, in rest, what is left of the packet
\* buffer: all of it before packet.Advance(3), the bytes after the prefix
\* when the address cannot be read (what the codec took of them by then is
\* not modelled), the payload after a header
DecodeUDPPacket(packet) ==
    IF Len(packet) < 5
    THEN [NoDecoded EXCEPT !.status = "err", !.err = "insufficient length of packet.",
                           !.rest = packet]
    ELSE IF packet[3] # 0
    THEN [NoDecoded EXCEPT !.status = "err", !.err = "discarding fragmented payload.",
                           !.rest = packet]
    ELSE LET w == SubSeq(packet, 4, Len(packet))
             r == ReadAddressPort(w)
         IN IF ~r.ok
            THEN [NoDecoded EXCEPT !.status = "err", !.err = "failed to read UDP header",
                                   !.rest = w]
            ELSE [status |-> "ok", err |-> "",
                  request |-> [Version |-> socks5Version, Command |-> "UDP",
                               Address |-> r.address, Port |-> r.port, User |-> NoUser],
                  rest |-> SubSeq(w, r.n + 1, Len(w))]

UdpInit ==
    \E request \in UdpHeaders, data \in Payloads :
        ud = [pc |-> "start", request |-> request, data |-> data,
              packet |-> <<>>, encoded |-> FALSE, res |-> NoDecoded]

\* the relay encodes a datagram for its peer
UdpEncode ==
    /\ ud.pc = "start"
    /\ ud' = [ud EXCEPT !.pc = "packed", !.encoded = TRUE,
                        !.packet = EncodeUDPPacket(ud.request, ud.data)]
    /\ UNCHANGED <<dvars, svars, cl, dl, rip, yvars>>

\* a datagram arrives from the network
UdpReceive ==
    /\ ud.pc = "start"
    /\ \E packet \in RawPackets :
         ud' = [ud EXCEPT !.pc = "packed", !.packet = packet]
    /\ UNCHANGED <<dvars, svars, cl, dl, rip, yvars>>

\* the relay decodes the datagram it holds
UdpDecode ==
    /\ ud.pc = "packed"
    /\ ud' = [ud EXCEPT !.pc = "done", !.res = DecodeUDPPacket(ud.packet)]
    /\ UNCHANGED <<dvars, svars, cl, dl, rip, yvars>>

UdpNext ==
    \/ UdpEncode
    \/ UdpReceive
    \/ UdpDecode

-----------------------------------------------------------------------------
(* Outbound handler: ParseRandomIP (handler.go 411-428) *)

(* Addresses are sequences of bytes, most significant first, 4 for IPv4 and *)
(* 16 for IPv6, and the big.Int arithmetic of the code is done on them     *)
(* byte by byte.                                                            *)

\* the bytes of an IP address as addr.IP() gives them
FamilyLen(family) == IF family = "ipv4" THEN 4 ELSE 16

\* ipnet.IP of ParseCIDR: a with all but its first p bits cleared
MaskBytes(a, p) ==
    [i \in 1 .. Len(a) |->
        IF p >= 8 * i THEN a[i]
        ELSE IF p <= 8 * (i - 1) THEN 0
        ELSE a[i] - (a[i] % (2 ^ (8 * i - p)))]

\* the number 2^k in n bytes (k < 8n)
Pow2Bytes(n, k) == [i \in 1 .. n |-> IF i = n - (k \div 8) THEN 2 ^ (k % 8) ELSE 0]

\* the number 2^k - 1 in n bytes (k <= 8n)
OnesBytes(n, k) ==
    [i \in 1 .. n |->
        LET low == 8 * (n - i)
        IN IF k >= low + 8 THEN 255
           ELSE IF k <= low THEN 0
           ELSE 2 ^ (k - low) - 1]

\* big.Int Add of two numbers of n bytes: the low n bytes of the sum and
\* whether the sum needs more than n bytes
AddBytes(a, b) ==
    LET n == Len(a)
        carry[i \in 1 .. n + 1] ==
            IF i = n + 1 THEN 0 ELSE (a[i] + b[i] + carry[i + 1]) \div 256
    IN [bytes |-> [i \in 1 .. n |-> (a[i] + b[i] + carry[i + 1]) % 256],
        over |-> carry[1] = 1]

\* values rand.Int may return below subnetSize = 2^k, as numbers of n bytes:
\* the least, one, the half and the greatest
RandomOffsets(n, k) ==
    {OnesBytes(n, 0), OnesBytes(n, k)}
    \cup (IF k >= 1 THEN {Pow2Bytes(n, 0), Pow2Bytes(n, k - 1)} ELSE {})

\* gonet.IP(padded).String() followed by net.ParseAddress: sixteen bytes of
\* the form ::ffff:a.b.c.d are printed in dotted form and parsed as IPv4
IPFromBytes(b) ==
    IF Len(b) = 16 /\ (\A i \in 1 .. 10 : b[i] = 0) /\ b[11] = 255 /\ b[12] = 255
    THEN [family |-> "ipv4", bytes |-> SubSeq(b, 13, 16)]
    ELSE [family |-> IF Len(b) = 4 THEN "ipv4" ELSE "ipv6", bytes |-> b]

\* prefix strings: the decimal numbers 0 .. 128, and -1 for a string that is
\* no number
PrefixStrings == -1 .. 128

\* handler.go 413: ParseCIDR accepts an IP and a prefix within its width
CIDRParses(addr, prefix) ==
    /\ addr.family \in {"ipv4", "ipv6"}
    /\ prefix >= 0
    /\ prefix <= 8 * FamilyLen(addr.family)

NoResult == [status |-> "none", address |-> NoAddress]
Panicked == [status |-> "panic", address |-> NoAddress]

\* a ParseRandomIP that ignores the random number and returns the base
ParseRandomIPBase(addr, prefix, rnd) ==
    IF ~CIDRParses(addr, prefix) THEN Panicked
    ELSE [status |-> "ok", address |-> IPFromBytes(MaskBytes(addr.bytes, prefix))]

\* handler.go 411-428 with rnd the number rand.Int returned; ipnet is nil
\* when ParseCIDR failed and ipnet.Mask then panics
ParseRandomIP(addr, prefix, rnd) ==
    IF ~CIDRParses(addr, prefix) THEN Panicked
    ELSE LET startInt == MaskBytes(addr.bytes, prefix)
             rndInt == AddBytes(startInt, rnd)
         IN IF rndInt.over THEN Panicked
            ELSE [status |-> "ok", address |-> IPFromBytes(rndInt.bytes)]

\* via addresses
RandomVias ==
    {[family |-> "ipv4", bytes |-> <<10, 1, 2, 3>>],
     [family |-> "ipv4", bytes |-> <<255, 255, 255, 255>>],
     [family |-> "ipv6", bytes |-> <<32, 1, 13, 184, 0, 0, 0, 0, 0, 0, 0, 0, 0, 0, 0, 1>>],
     [family |-> "ipv6", bytes |-> <<0, 0, 0, 0, 0, 0, 0, 0, 0, 0, 255, 254, 0, 0, 0, 0>>],
     [family |-> "ipv6", bytes |-> [i \in 1 .. 16 |-> 255]]}

RandomInit ==
    \E addr \in RandomVias, prefix \in PrefixStrings :
        rip = [pc |-> "start", addr |-> addr, prefix |-> prefix,
               rnd |-> <<>>, res |-> NoResult]

\* one call of ParseRandomIP
RandomCall ==
    /\ rip.pc = "start"
    /\ \E rnd \in RandomOffsets(FamilyLen(rip.addr.family),
                               IF CIDRParses(rip.addr, rip.prefix)
                               THEN 8 * FamilyLen(rip.addr.family) - rip.prefix ELSE 0) :
         rip' = [rip EXCEPT !.pc = "done", !.rnd = rnd,
                            !.res = ParseRandomIP(rip.addr, rip.prefix, rnd)]
    /\ UNCHANGED <<dvars, svars, cl, ud, dl, yvars>>

RandomNext == RandomCall

-----------------------------------------------------------------------------
(* Outbound handler: Dial (handler.go 247-371) *)

\* the domain aliases of a via address, as bytes
DomainOrigin == <<111, 114, 105, 103, 105, 110>>
DomainSrcip == <<115, 114, 99, 105, 112>>
DomainOther == <<97>>

\* senderSettings.Via: nil, an IPv4 or IPv6 address, or a domain
NoVia == [nil |-> TRUE, address |-> NoAddress]
Vias ==
    {NoVia}
    \cup {[nil |-> FALSE, address |-> a] :
            a \in {[family |-> "ipv4", bytes |-> <<10, 1, 2, 3>>],
                   [family |-> "ipv6", bytes |-> <<32, 1, 13, 184, 0, 0, 0, 0, 0, 0, 0, 0, 0, 0, 0, 1>>],
                   [family |-> "domain", bytes |-> DomainOrigin],
                   [family |-> "domain", bytes |-> DomainSrcip],
                   [family |-> "domain", bytes |-> DomainOther]}}

\* senderSettings.ViaCidr: the empty string or a prefix string
NoCidr == [empty |-> TRUE, prefix |-> 0]
ViaCidrs == {NoCidr, [empty |-> FALSE, prefix |-> 24], [empty |-> FALSE, prefix |-> 120]}

\* tags the outbound manager has a handler for, and tags of ProxySettings
\* ("" is no tag)
KnownTags == {"up"}
ProxyTags == {"", "up", "ghost"}

\* h.senderSettings, nil or a SenderConfig
NoSenderSettings == [nil |-> TRUE, Tag |-> "", Via |-> NoVia, ViaCidr |-> NoCidr]
SenderSettings ==
    {NoSenderSettings}
    \cup [nil : {FALSE}, Tag : ProxyTags, Via : Vias, ViaCidr : ViaCidrs]

\* stat.Connection values: nil, or a connection of some kind, possibly
\* wrapped by the TLS client and by the counters; inner is whether the
\* wrapped connection is itself a connection
NoConn == [nil |-> TRUE, kind |-> "none", tls |-> FALSE, counted |-> FALSE, inner |-> FALSE]
Conn(kind) == [nil |-> FALSE, kind |-> kind, tls |-> FALSE, counted |-> FALSE, inner |-> TRUE]

\* session.Outbound records
Outbound(target, tag) == [Target |-> target, Tag |-> tag, Gateway |-> NoAddress, Conn |-> NoConn]

Destinations ==
    {[Network |-> "tcp", Address |-> [family |-> "domain", bytes |-> <<97>>], Port |-> 443],
     [Network |-> "udp", Address |-> [family |-> "ipv4", bytes |-> <<8, 8, 8, 8>>], Port |-> 53]}

\* the user's email: empty, without prefix, or a prefix and the groups that
\* strings.Split finds between the dashes
Emails ==
    {[kind |-> "empty", parts |-> <<>>],
     [kind |-> "plain", parts |-> <<>>],
     [kind |-> "ipv4_", parts |-> <<192, 0, 2, 7>>],
     [kind |-> "ipv4_", parts |-> <<192, 0, 2, 7, 9>>],
     [kind |-> "ipv4_", parts |-> <<192, 0, 2>>],
     [kind |-> "ipv6_", parts |-> <<8193, 3512, 0, 0, 0, 0, 0, 5>>],
     [kind |-> "ipv6_", parts |-> <<8193, 3512, 5>>]}

\* inbound.User, nil or a user with an email
NoInboundUser == [nil |-> TRUE, Email |-> [kind |-> "empty", parts |-> <<>>]]
InboundUsers == {NoInboundUser} \cup {[nil |-> FALSE, Email |-> e] : e \in Emails}

\* inbound.Conn: nil, a connection whose addresses split into host and port,
\* or one whose addresses do not (a unix socket)
LocalAddr == [family |-> "ipv4", bytes |-> <<172, 16, 0, 1>>]
RemoteAddr == [family |-> "ipv4", bytes |-> <<203, 0, 113, 9>>]
NoInboundConn == [nil |-> TRUE, splits |-> FALSE, Local |-> NoAddress, Remote |-> NoAddress]
InboundConns ==
    {NoInboundConn,
     [nil |-> FALSE, splits |-> TRUE, Local |-> LocalAddr, Remote |-> RemoteAddr],
     [nil |-> FALSE, splits |-> FALSE, Local |-> NoAddress, Remote |-> NoAddress]}

\* session.InboundFromContext(ctx)
NoInbound == [nil |-> TRUE, User |-> NoInboundUser, Conn |-> NoInboundConn]
Inbounds == {NoInbound} \cup [nil : {FALSE}, User : InboundUsers, Conn : InboundConns]

\* the outbound list of the caller's context: the record of this handler,
\* alone or after the record of an earlier one
OutboundLists(dest) ==
    {<<Outbound(dest, "self")>>,
     <<[Outbound(dest, "first") EXCEPT !.Gateway = RemoteAddr], Outbound(dest, "self")>>}

\* eight groups of sixteen bits as sixteen bytes
HextetBytes(g) ==
    [i \in 1 .. 16 |-> IF i % 2 = 1 THEN g[(i + 1) \div 2] \div 256 ELSE g[i \div 2] % 256]

\* the outcome of an egress rule: whether Dial goes on and whether and to
\* what ob.Gateway is set
GatewayKept == [status |-> "ok", set |-> FALSE, gateway |-> NoAddress]
GatewaySet(a) == [status |-> "ok", set |-> TRUE, gateway |-> a]
GatewayPanic == [status |-> "panic", set |-> FALSE, gateway |-> NoAddress]

\* handler.go 326-340: the inbound connection's local address
LocalGateway(inbound) ==
    IF ~inbound.Conn.nil /\ inbound.Conn.splits
    THEN GatewaySet(inbound.Conn.Local) ELSE GatewayKept

\* handler.go 290-343: the "origin" rule; line 294 reads inbound.User.Email
\* before the test for a nil user
OriginGateway(inbound) ==
    IF inbound.nil THEN GatewayKept
    ELSE IF inbound.User.nil THEN GatewayPanic
    ELSE LET email == inbound.User.Email
         IN IF email.kind = "empty" THEN LocalGateway(inbound)
            ELSE IF email.kind = "ipv4_"
            THEN IF Len(email.parts) >= 4
                 THEN GatewaySet([family |-> "ipv4", bytes |-> SubSeq(email.parts, 1, 4)])
                 ELSE GatewayKept
            ELSE IF email.kind = "ipv6_"
            THEN IF Len(email.parts) >= 8
                 THEN GatewaySet(IPFromBytes(HextetBytes(SubSeq(email.parts, 1, 8))))
                 ELSE GatewayKept
            ELSE LocalGateway(inbound)

\* handler.go 344-353: the "srcip" rule
SrcipGateway(inbound) ==
    IF ~inbound.nil /\ ~inbound.Conn.nil /\ inbound.Conn.splits
    THEN GatewaySet(inbound.Conn.Remote) ELSE GatewayKept

\* the result of ParseRandomIP as an egress outcome
RandomGateway(r) == IF r.status = "ok" THEN GatewaySet(r.address) ELSE GatewayPanic

\* Via.GetDomain(): the domain of a domain address, "" otherwise
GetDomain(via) == IF via.address.family = "domain" THEN via.address.bytes ELSE <<>>

\* an egress switch that looks at the domain aliases before the CIDR
ViaGatewayAliasFirst(ss, inbound, rnd) ==
    CASE GetDomain(ss.Via) = DomainOrigin -> OriginGateway(inbound)
      [] GetDomain(ss.Via) = DomainSrcip -> SrcipGateway(inbound)
      [] ~ss.ViaCidr.empty -> RandomGateway(ParseRandomIP(ss.Via.address, ss.ViaCidr.prefix, rnd))
      [] OTHER -> GatewaySet(ss.Via.address)

\* handler.go 286-358: the switch over the egress rules
ViaGateway(ss, inbound, rnd) ==
    CASE ~ss.ViaCidr.empty -> RandomGateway(ParseRandomIP(ss.Via.address, ss.ViaCidr.prefix, rnd))
      [] GetDomain(ss.Via) = DomainOrigin -> OriginGateway(inbound)
      [] GetDomain(ss.Via) = DomainSrcip -> SrcipGateway(inbound)
      [] OTHER -> GatewaySet(ss.Via.address)

\* the random numbers the CIDR rule may draw for these settings
ViaOffsets(ss) ==
    IF ~ss.ViaCidr.empty /\ CIDRParses(ss.Via.address, ss.ViaCidr.prefix)
    THEN RandomOffsets(FamilyLen(ss.Via.address.family),
                       8 * FamilyLen(ss.Via.address.family) - ss.ViaCidr.prefix)
    ELSE {<<>>}

\* handler.go 373-382: with a counter the connection is wrapped, a nil one
\* too
getStatCouterConnection(counters, conn) ==
    IF counters THEN [conn EXCEPT !.nil = FALSE, !.counted = TRUE, !.inner = ~conn.nil]
    ELSE conn

\* handler.go 250-254: chain-by-tag applies
ChainHandlerFound(ss) == ~ss.nil /\ ss.Tag # "" /\ ss.Tag \in KnownTags

\* a nested context that keeps the caller's outbound list as it is
ChainOutboundsNoRecord(outbounds, dest, tag) == outbounds

\* handler.go 257-260: the outbound list of the nested context
ChainOutbounds(outbounds, dest, tag) == Append(outbounds, Outbound(dest, tag))

NoNested == [state |-> "none", outbounds |-> <<>>, Reader |-> "", Writer |-> ""]

DialInit ==
    \E ss \in SenderSettings, dest \in Destinations, inbound \in Inbounds,
       tls \in BOOLEAN, counters \in BOOLEAN :
      \E outbounds \in OutboundLists(dest) :
        dl = [ss |-> ss, tls |-> tls, counters |-> counters, dest |-> dest,
              inbound |-> inbound, outbounds0 |-> outbounds, outbounds |-> outbounds,
              pc |-> "start", calls |-> <<>>, nested |-> NoNested,
              conn |-> NoConn, err |-> ""]

\* handler.go 248-363: the chain-by-tag lookup and, if it finds nothing, the
\* egress rule and the call of getUoTConnection
DialEnter ==
    /\ dl.pc = "start"
    /\ UNCHANGED <<dvars, svars, cl, ud, rip, yvars>>
    /\ IF ChainHandlerFound(dl.ss)
       THEN dl' = [dl EXCEPT
                     !.pc = "chained",
                     !.calls = Append(@, [call |-> "go handler.Dispatch", dest |-> dl.dest]),
                     !.nested = [state |-> "running",
                                 outbounds |-> ChainOutbounds(dl.outbounds, dl.dest, dl.ss.Tag),
                                 Reader |-> "uplinkReader", Writer |-> "downlinkWriter"]]
       ELSE IF dl.ss.nil \/ dl.ss.Via.nil
       THEN dl' = [dl EXCEPT !.pc = "uot",
                             !.calls = Append(@, [call |-> "getUoTConnection", dest |-> dl.dest])]
       ELSE \E rnd \in ViaOffsets(dl.ss) :
              LET g == ViaGateway(dl.ss, dl.inbound, rnd)
                  n == Len(dl.outbounds)
              IN IF g.status = "panic"
                 THEN dl' = [dl EXCEPT !.pc = "panicked"]
                 ELSE dl' = [dl EXCEPT
                               !.pc = "uot",
                               !.outbounds[n].Gateway = IF g.set THEN g.gateway ELSE @,
                               !.calls = Append(@, [call |-> "getUoTConnection", dest |-> dl.dest])]

\* handler.go 263-274: the connection over the two pipes, wrapped by TLS if
\* the stream settings have it and by the counters
DialChainReturn ==
    /\ dl.pc = "chained"
    /\ UNCHANGED <<dvars, svars, cl, ud, rip, yvars>>
    /\ dl' = [dl EXCEPT !.pc = "returned",
                        !.conn = getStatCouterConnection(dl.counters,
                                    [Conn("chain") EXCEPT !.tls = dl.tls])]

\* the nested handler's Dispatch, on its own goroutine, comes to its end
NestedDispatchEnds ==
    /\ dl.nested.state = "running"
    /\ UNCHANGED <<dvars, svars, cl, ud, rip, yvars>>
    /\ dl' = [dl EXCEPT !.nested.state = "done"]

\* handler.go 361-365: getUoTConnection returns os.ErrInvalid, a connection
\* or another error
DialUoTReturn ==
    /\ dl.pc = "uot"
    /\ UNCHANGED <<dvars, svars, cl, ud, rip, yvars>>
    /\ \/ dl' = [dl EXCEPT !.pc = "dialing",
                           !.calls = Append(@, [call |-> "internet.Dial", dest |-> dl.dest])]
       \/ dl' = [dl EXCEPT !.pc = "returned", !.conn = Conn("uot")]
       \/ dl' = [dl EXCEPT !.pc = "returned", !.err = "uot failed"]

\* handler.go 365-370: internet.Dial returns a connection or an error
DialTransportReturn ==
    /\ dl.pc = "dialing"
    /\ UNCHANGED <<dvars, svars, cl, ud, rip, yvars>>
    /\ \E dialed \in {"ok", "dial failed"} :
         LET conn == getStatCouterConnection(dl.counters,
                        IF dialed = "ok" THEN Conn("transport") ELSE NoConn)
             n == Len(dl.outbounds)
         IN dl' = [dl EXCEPT !.pc = "returned",
                             !.outbounds[n].Conn = conn,
                             !.conn = conn,
                             !.err = IF dialed = "ok" THEN "" ELSE dialed]

DialNext ==
    \/ DialEnter
    \/ DialChainReturn
    \/ NestedDispatchEnds
    \/ DialUoTReturn
    \/ DialTransportReturn

-----------------------------------------------------------------------------
(* Outbound handler: Close (handler.go 395-399) *)

\* outcomes of the Close of a pool or of the proxy; common.Close hands the
\* error back and Handler.Close drops it
CloseErrs == {"", "close failed"}

CloseInit ==
    \E config \in MultiplexSettings :
        hc = [ms |-> config, h |-> NewHandler(config), pc |-> "start",
              calls |-> <<>>, ret |-> "none"]

\* handler.go 396: common.Close(h.mux), the only pool Close touches
CloseFirst(handler, e) ==
    <<[obj |-> "mux", present |-> handler.mux.present, err |-> e]>>

\* handler.go 396: the close of the mux pool returns
CloseMux ==
    /\ hc.pc = "start"
    /\ \E e \in CloseErrs :
         hc' = [hc EXCEPT !.pc = "mux closed", !.calls = @ \o CloseFirst(hc.h, e)]
    /\ UNCHANGED <<dvars, svars, xvars, uw, cr>>

\* handler.go 397-398: the close of the proxy returns and Close returns nil
CloseProxy ==
    /\ hc.pc = "mux closed"
    /\ \E e \in CloseErrs :
         hc' = [hc EXCEPT !.pc = "returned",
                          !.calls = Append(@, [obj |-> "proxy", present |-> TRUE, err |-> e]),
                          !.ret = "nil"]
    /\ UNCHANGED <<dvars, svars, xvars, uw, cr>>

CloseNext ==
    \/ CloseMux
    \/ CloseProxy

-----------------------------------------------------------------------------
(* SOCKS: UDPWriter.WriteMultiBuffer (http.go 558-591) *)

\* most chunks of a MultiBuffer
MaxChunks == 3

\* b.UDP of a chunk: nil, a destination, or a destination whose address the
\* codec cannot write
NoChunkUDP == [nil |-> TRUE, Address |-> NoAddress, Port |-> 0]
ChunkUDPs ==
    {NoChunkUDP,
     [nil |-> FALSE, Address |-> [family |-> "ipv4", bytes |-> <<8, 8, 8, 8>>], Port |-> 53],
     [nil |-> FALSE, Address |-> NoAddress, Port |-> 53]}

\* the chunks of a MultiBuffer
Chunks == [data : {<<>>, <<7>>}, UDP : ChunkUDPs]

\* w.Request, the header of the association
WriterRequest ==
    [Version |-> socks5Version, Command |-> "UDP",
     Address |-> [family |-> "domain", bytes |-> <<97>>], Port |-> 443, User |-> NoUser]

\* http.go 529-532: addrParser.WriteAddressPort returns an error for an
\* address that is none of IPv4, IPv6 and domain
EncodeFails(request) == request.Address.family \notin {"ipv4", "ipv6", "domain"}

\* a writer that puts its own request header on every datagram
ChunkRequestDefault(request, b) == request

\* http.go 570-576: the header of the datagram of chunk b
ChunkRequest(request, b) ==
    IF ~b.UDP.nil
    THEN [NoRequest EXCEPT !.Address = b.UDP.Address, !.Port = b.UDP.Port]
    ELSE request

WriterInit ==
    \E mb \in SeqsUpTo(Chunks, MaxChunks) :
        uw = [Request |-> WriterRequest, chunks |-> mb, mb |-> mb,
              written |-> <<>>, pc |-> "loop", err |-> ""]

\* http.go 564-588: one turn of the loop for the first chunk of mb: the
\* datagram is encoded and handed to the writer, which takes it or fails
WriteChunk ==
    /\ uw.pc = "loop"
    /\ uw.mb # <<>>
    /\ LET b == Head(uw.mb)
           request == ChunkRequest(uw.Request, b)
       IN IF EncodeFails(request)
          THEN uw' = [uw EXCEPT !.pc = "returned", !.err = "address not written", !.mb = <<>>]
          ELSE \/ uw' = [uw EXCEPT !.mb = Tail(@),
                                   !.written = Append(@, EncodeUDPPacket(request, b.data))]
               \/ uw' = [uw EXCEPT !.pc = "returned", !.err = "write failed", !.mb = <<>>]
    /\ UNCHANGED <<dvars, svars, xvars, hc, cr>>

\* http.go 567-569 and 590: no chunk is left
WriteReturn ==
    /\ uw.pc = "loop"
    /\ uw.mb = <<>>
    /\ uw' = [uw EXCEPT !.pc = "returned"]
    /\ UNCHANGED <<dvars, svars, xvars, hc, cr>>

WriterNext ==
    \/ WriteChunk
    \/ WriteReturn

-----------------------------------------------------------------------------
(* SOCKS: the username/password frame from ClientHandshake to
   ReadUsernamePassword (http.go 619-629 and 409-442) *)

\* longest username and password of an account
MaxCredLen == 257

\* lengths of usernames and passwords: the short ones and those around the
\* range of a length byte
CredLens == {0, 1, 2, 255} \cup (256 .. MaxCredLen)

\* a string of n bytes c
Repeat(c, n) == [i \in 1 .. n |-> c]

\* the accounts of a request: usernames of 'u', passwords of 'p'
CredAccounts ==
    {[present |-> TRUE, Username |-> Repeat(117, n), Password |-> Repeat(112, m)] :
        n, m \in CredLens}

\* bytes i+1 .. i+n of a stream
Slice(w, i, n) == [k \in 1 .. n |-> w[i + k]]

NoCredentials == [ok |-> FALSE, username |-> <<>>, password |-> <<>>, n |-> 0]

\* http.go 415-442: ReadUsernamePassword on a reader that holds the bytes w
\* and then ends; n is the number of bytes consumed by the reads that
\* succeeded
ReadUsernamePassword(w) ==
    IF Len(w) < 2 THEN NoCredentials
    ELSE LET nUsername == w[2]
         IN IF Len(w) < 2 + nUsername THEN [NoCredentials EXCEPT !.n = 2]
            ELSE LET username == Slice(w, 2, nUsername)
                 IN IF Len(w) < 2 + nUsername + 1
                    THEN [NoCredentials EXCEPT !.n = 2 + nUsername]
                    ELSE LET nPassword == w[2 + nUsername + 1]
                         IN IF Len(w) < 2 + nUsername + 1 + nPassword
                            THEN [NoCredentials EXCEPT !.n = 2 + nUsername + 1]
                            ELSE [ok |-> TRUE, username |-> username,
                                  password |-> Slice(w, 2 + nUsername + 1, nPassword),
                                  n |-> 2 + nUsername + 1 + nPassword]

CredInit ==
    \E account \in CredAccounts :
        cr = [pc |-> "start", account |-> account, frame |-> <<>>, res |-> NoCredentials]

\* http.go 619-629: the client writes the frame of its account
CredWrite ==
    /\ cr.pc = "start"
    /\ cr' = [cr EXCEPT !.pc = "written", !.frame = ClientCredentials(cr.account)]
    /\ UNCHANGED <<dvars, svars, xvars, hc, uw>>

\* http.go 299 and 415-442: the server reads the frame
CredRead ==
    /\ cr.pc = "written"
    /\ cr' = [cr EXCEPT !.pc = "read", !.res = ReadUsernamePassword(cr.frame)]
    /\ UNCHANGED <<dvars, svars, xvars, hc, uw>>

CredNext ==
    \/ CredWrite
    \/ CredRead

-----------------------------------------------------------------------------
(* The specifications *)

\* no Close call
CloseIdle ==
    hc = [ms |-> CHOOSE m \in MultiplexSettings : ~m.present,
          h |-> NewHandler(CHOOSE m \in MultiplexSettings : ~m.present),
          pc |-> "idle", calls |-> <<>>, ret |-> "none"]

\* no WriteMultiBuffer call
WriterIdle ==
    uw = [Request |-> WriterRequest, chunks |-> <<>>, mb |-> <<>>,
          written |-> <<>>, pc |-> "idle", err |-> ""]
\* no credentials frame
CredIdle ==
    cr = [pc |-> "idle", account |-> NoAccount, frame |-> <<>>, res |-> NoCredentials]

\* no ClientHandshake call
ClientIdle ==
    cl = [request |-> CHOOSE r \in ClientRequests : TRUE, pc |-> "idle",
          out |-> <<>>, rd |-> <<>>, ret |-> NotReturned]

\* no datagram in the codec
UdpIdle ==
    ud = [pc |-> "idle", request |-> CHOOSE r \in UdpHeaders : TRUE, data |-> <<>>,
          packet |-> <<>>, encoded |-> FALSE, res |-> NoDecoded]
\* no Dial call
DialIdle ==
    dl = [ss |-> NoSenderSettings, tls |-> FALSE, counters |-> FALSE,
          dest |-> CHOOSE d \in Destinations : TRUE,
          inbound |-> NoInbound, outbounds0 |-> <<>>, outbounds |-> <<>>,
          pc |-> "idle", calls |-> <<>>, nested |-> NoNested,
          conn |-> NoConn, err |-> ""]
\* no ParseRandomIP call
RandomIdle ==
    rip = [pc |-> "idle", addr |-> NoAddress, prefix |-> 0, rnd |-> <<>>, res |-> NoResult]

\* the SOCKS session at rest while a flow is dispatched
SocksIdle ==
    /\ cfg = CHOOSE c \in ServerConfigs : TRUE
    /\ spc = "idle"
    /\ nread = 0
    /\ out = <<>>
    /\ hs = [version |-> 0, b1 |-> 0, port |-> 0, address |-> NoAddress,
             methods |-> <<>>, username |-> <<>>, password |-> <<>>,
             checked |-> "none", cmd |-> 0, wire |-> <<>>]
    /\ ret = NotReturned

\* the handler at rest while a handshake runs
DispatchIdle ==
    /\ ms = CHOOSE m \in MultiplexSettings : ~m.present
    /\ h = NewHandler(ms)
    /\ ob = CHOOSE o \in Outbounds : TRUE
    /\ dpc = "unused"
    /\ dlog = <<>>
    /\ link = [Writer |-> "open", Reader |-> "open", override |-> FALSE]
    /\ derr = <<>>

\* a handler built by NewHandler and one flow about to be dispatched
InitDispatch == DispatchInit /\ SocksIdle /\ ClientIdle /\ UdpIdle /\ DialIdle /\ RandomIdle
    /\ CloseIdle /\ WriterIdle /\ CredIdle

\* a server session about to read the first bytes of a stream
InitSocks == SocksInit /\ DispatchIdle /\ ClientIdle /\ UdpIdle /\ DialIdle /\ RandomIdle
    /\ CloseIdle /\ WriterIdle /\ CredIdle

SpecDispatch == InitDispatch /\ [][DispatchNext]_vars

SpecSocks == InitSocks /\ [][SocksNext]_vars

\* a client about to write its greeting
InitClient == ClientInit /\ DispatchIdle /\ SocksIdle /\ UdpIdle /\ DialIdle /\ RandomIdle
    /\ CloseIdle /\ WriterIdle /\ CredIdle

SpecClient == InitClient /\ [][ClientNext]_vars

\* a datagram about to be encoded or received
InitUdp == UdpInit /\ DispatchIdle /\ SocksIdle /\ ClientIdle /\ DialIdle /\ RandomIdle
    /\ CloseIdle /\ WriterIdle /\ CredIdle

SpecUdp == InitUdp /\ [][UdpNext]_vars

\* a via address and a prefix about to go through ParseRandomIP
InitRandom == RandomInit /\ DispatchIdle /\ SocksIdle /\ ClientIdle /\ UdpIdle /\ DialIdle
    /\ CloseIdle /\ WriterIdle /\ CredIdle

SpecRandom == InitRandom /\ [][RandomNext]_vars

\* a handler about to be asked for a connection to dest
InitDial == DialInit /\ DispatchIdle /\ SocksIdle /\ ClientIdle /\ UdpIdle /\ RandomIdle
    /\ CloseIdle /\ WriterIdle /\ CredIdle

SpecDial == InitDial /\ [][DialNext]_vars

\* a handler built by NewHandler about to be closed
InitClose ==
    CloseInit /\ DispatchIdle /\ SocksIdle /\ ClientIdle /\ UdpIdle /\ DialIdle /\ RandomIdle
    /\ WriterIdle /\ CredIdle

SpecClose == InitClose /\ [][CloseNext]_vars

\* a MultiBuffer about to be written
InitWriter ==
    WriterInit /\ DispatchIdle /\ SocksIdle /\ ClientIdle /\ UdpIdle /\ DialIdle /\ RandomIdle
    /\ CloseIdle /\ CredIdle

SpecWriter == InitWriter /\ [][WriterNext]_vars

\* an account whose credentials are about to be sent
InitCred ==
    CredInit /\ DispatchIdle /\ SocksIdle /\ ClientIdle /\ UdpIdle /\ DialIdle /\ RandomIdle
    /\ CloseIdle /\ WriterIdle

SpecCred == InitCred /\ [][CredNext]_vars

\* a client and a server at the two ends of a fresh connection; each side
\* runs in its own goroutine and goes on whenever its next bytes are there
InitPair ==
    SocksInit /\ ClientInit /\ DispatchIdle /\ UdpIdle /\ DialIdle /\ RandomIdle
    /\ CloseIdle /\ WriterIdle /\ CredIdle

SpecPair == InitPair /\ [][PairNext]_vars /\ WF_vars(PairNext)

-----------------------------------------------------------------------------
(* Properties of Handler.Dispatch, checked under SpecDispatch *)

Count(log, e) == Cardinality({i \in 1 .. Len(log) : log[i] = e})

PoolCalls == Count(dlog, "xudp.Dispatch") + Count(dlog, "mux.Dispatch")
ProcessCalls == Count(dlog, "proxy.Process")
WriterEnds == Count(dlog, "Interrupt(Writer)") + Count(dlog, "Close(Writer)")
ErrorsReported == Count(dlog, "SubmitOutboundError")

\* the flow is UDP to port 443
IsUdp443 == ob.Network = "UDP" /\ ob.Port = 443

\* multiplexing is configured: NewHandler built a TCP mux pool object
MuxConfigured == ms.present /\ ms.Enabled

C4_ExactlyOnePath ==
    dpc = "returned" => PoolCalls + ProcessCalls = 1

\* C4 as amended: Dispatch never invokes both a pool and the proxy, nor a
\* pool twice; it invokes neither exactly when a UDP flow to port 443 meets
\* the "reject" policy of a handler with multiplexing configured, and exactly
\* one in every other case.
C4_AtMostOnePath ==
    /\ PoolCalls + ProcessCalls <= 1
    /\ dpc = "returned" =>
         (PoolCalls + ProcessCalls = 0
            <=> (IsUdp443 /\ MuxConfigured /\ ms.XudpProxyUDP443 = "reject"))

\* C4 witness: the TCP mux pool refused the link and the proxy was not tried.
C4_Witness ==
    /\ dpc = "returned"
    /\ Count(dlog, "mux.Dispatch") = 1
    /\ derr # <<>>
    /\ ProcessCalls = 0

\* the flow is one the UDP/443 policy takes out of pool selection
Diverted == IsUdp443 /\ MuxConfigured /\ ms.XudpProxyUDP443 \in {"reject", "skip"}

\* C5 as stated: outside the UDP/443 policy, a UDP flow goes to the xudp pool
\* if it is present and enabled, otherwise any flow goes to the TCP mux pool
\* if that is enabled, otherwise to the direct path.
C5_PoolSelectionAsStated ==
    (dpc # "idle" /\ ~Diverted) =>
        dlog[1] = (IF ob.Network = "UDP" /\ h.xudp.present /\ h.xudp.Enabled
                   THEN "xudp.Dispatch"
                   ELSE IF h.mux.present /\ h.mux.Enabled THEN "mux.Dispatch"
                   ELSE "proxy.Process")

\* C5 as amended: outside the UDP/443 policy, a UDP flow of a handler that
\* has an xudp pool goes to that pool if it is enabled and to the direct path
\* if it is disabled, whatever the TCP mux pool is; a TCP flow, and a UDP flow
\* of a handler without an xudp pool, goes to the TCP mux pool if that is
\* enabled and to the direct path otherwise.
C5_PoolSelection ==
    (dpc # "idle" /\ ~Diverted) =>
        dlog[1] = (IF ob.Network = "UDP" /\ h.xudp.present
                   THEN (IF h.xudp.Enabled THEN "xudp.Dispatch" ELSE "proxy.Process")
                   ELSE IF h.mux.present /\ h.mux.Enabled THEN "mux.Dispatch"
                   ELSE "proxy.Process")

\* C5 witness: a UDP flow met a disabled xudp pool next to an enabled TCP mux
\* pool and went to the proxy.
C5_Witness ==
    /\ dpc = "returned"
    /\ ob.Network = "UDP"
    /\ ~Diverted
    /\ h.xudp.present /\ ~h.xudp.Enabled
    /\ h.mux.Enabled
    /\ dlog[1] = "proxy.Process"

\* C6: for a UDP flow to port 443, with multiplexing configured the policy
\* "reject" ends Dispatch with no pool and no proxy invoked and exactly one
\* error reported, "skip" takes the direct path with no pool, and any other
\* value leaves pool selection as for any UDP flow; without multiplexing
\* configured the flow takes the direct path whatever the policy string.
C6_Udp443Policy ==
    (dpc = "returned" /\ IsUdp443) =>
        IF ~MuxConfigured
        THEN ProcessCalls = 1 /\ PoolCalls = 0 /\ dlog[1] = "proxy.Process"
        ELSE CASE ms.XudpProxyUDP443 = "reject" ->
                    /\ PoolCalls = 0
                    /\ ProcessCalls = 0
                    /\ ErrorsReported = 1
               [] ms.XudpProxyUDP443 = "skip" ->
                    /\ PoolCalls = 0
                    /\ ProcessCalls = 1
               [] OTHER ->
                    dlog[1] = (IF ms.XudpConcurrency > 0 THEN "xudp.Dispatch"
                               ELSE IF ms.XudpConcurrency < 0 THEN "proxy.Process"
                               ELSE IF ms.Concurrency >= 0 THEN "mux.Dispatch"
                               ELSE "proxy.Process")

\* C6 witness: the reject policy ended a UDP/443 flow with one reported
\* error and nothing else invoked.
C6_Witness ==
    /\ dpc = "returned"
    /\ IsUdp443
    /\ ms.XudpProxyUDP443 = "reject"
    /\ dlog = <<"SubmitOutboundError", "LogInfo", "Interrupt(Writer)">>

-----------------------------------------------------------------------------
(* Properties of ServerSession.Handshake, checked under SpecSocks *)

LastFrame == out[Len(out)]

Socks4Rejected == <<0, 91, 0, 0, 0, 0, 0, 0>>
Socks4Granted == <<0, 90, 0, 0, 0, 0, 0, 0>>
Socks5NoMethod == <<5, 255>>
Socks5AuthFailed == <<1, 255>>
Socks5AuthPassed == <<1, 0>>
Socks5CmdNotSupported == <<5, 7, 0, 1, 0, 0, 0, 0, 0, 0>>

\* the errors with which Handshake turns a request down
RejectErrs ==
    {"unknown Socks version", "unsupported command", "no matching auth method",
     "invalid username or password", "invalid key",
     "socks 4 is not allowed when auth is required.",
     "UDP is not enabled.", "TCP bind is not supported.", "unknown command"}

\* C1: under a configuration that mandates authentication (PASSWORD or
\* KEYAUTH) Handshake returns a request only after a credential check of
\* that handshake succeeded.
C1_NoRequestWithoutCredentials ==
    (ret.status = "ok" /\ cfg.AuthType \in {"PASSWORD", "KEYAUTH"}) =>
        hs.checked = "ok"

BytesThroughCredentials ==
    2 + Len(hs.methods) + 2 + Len(hs.username) + 1 + Len(hs.password)

\* C7: once the user name and password were read, authentication succeeds
\* exactly if (PASSWORD) the accounts map holds the user name with exactly
\* that password or (KEYAUTH) the password field is a key stored with value
\* 1, whatever the user name; a failure writes (1, 255) as the last frame and
\* returns an error with no byte of the request read; a success writes (1, 0)
\* and goes on to the request.
C7_CredentialCheck ==
    hs.checked # "none" =>
        LET good ==
              \/ /\ cfg.AuthType = "PASSWORD"
                 /\ ~cfg.Accounts.nil
                 /\ <<hs.username, hs.password>> \in cfg.Accounts.m
              \/ /\ cfg.AuthType = "KEYAUTH"
                 /\ ~cfg.Keys.nil
                 /\ <<hs.password, 1>> \in cfg.Keys.m
        IN /\ hs.checked = "ok" <=> good
           /\ hs.checked = "failed" =>
                /\ ret.status = "err"
                /\ spc = "done"
                /\ Len(out) = 2
                /\ out[2] = Socks5AuthFailed
                /\ nread = BytesThroughCredentials
           /\ hs.checked = "ok" =>
                /\ Len(out) >= 2
                /\ out[2] = Socks5AuthPassed
                /\ ret.err \notin {"invalid username or password", "invalid key"}
                /\ nread = BytesThroughCredentials =>
                     \/ spc = "request5"
                     \/ ret.err \in {"failed to write auth response", "failed to read request"}

\* C7 witness: key authentication passed with an empty user name and the
\* handshake waits for the request.
C7_Witness ==
    /\ cfg.AuthType = "KEYAUTH"
    /\ hs.checked = "ok"
    /\ hs.username = <<>>
    /\ hs.password = <<97>>
    /\ spc = "request5"
    /\ out = <<<<5, 2>>, Socks5AuthPassed>>

\* C8 as stated: a successful SOCKS5 handshake that authenticated carries a
\* user record whose Email is the user name sent, the empty one included,
\* and a no-auth handshake carries none.
C8_UserAlwaysCarried ==
    (ret.status = "ok" /\ hs.version = 5) =>
        IF hs.checked = "ok"
        THEN ret.request.User.present /\ ret.request.User.Email = hs.username
        ELSE ~ret.request.User.present

\* C8 as amended: a successful SOCKS5 handshake that authenticated with a
\* non-empty user name carries a user record whose Email is that name; one
\* that authenticated with an empty user name carries no user record, like a
\* no-auth handshake.
C8_UserCarried ==
    (ret.status = "ok" /\ hs.version = 5) =>
        IF hs.checked = "ok" /\ hs.username # <<>>
        THEN ret.request.User = [present |-> TRUE, Email |-> hs.username]
        ELSE ret.request.User = [present |-> FALSE, Email |-> <<>>]

\* C8 witness: key authentication with user name "a" ended in a request that
\* carries "a".
C8_Witness ==
    /\ ret.status = "ok"
    /\ cfg.AuthType = "KEYAUTH"
    /\ hs.checked = "ok"
    /\ hs.username = <<97>>
    /\ ret.request.User = [present |-> TRUE, Email |-> <<97>>]

\* C9: every SOCKS4/4a request under password auth ends in an error with the
\* reply 91 written, no reply 90 written, whatever the command, and nothing
\* of the request read beyond the first two bytes.
C9_Socks4UnderPassword ==
    (hs.version = 4 /\ cfg.AuthType = "PASSWORD") =>
        /\ ret.status = "err"
        /\ spc = "done"
        /\ out = <<Socks4Rejected>>
        /\ \A i \in 1 .. Len(out) : out[i][2] # socks4RequestGranted
        /\ nread = 2

\* C9 witness: a SOCKS4 CONNECT under password auth was answered with 91.
C9_Witness ==
    /\ hs.version = 4
    /\ hs.b1 = cmdTCPConnect
    /\ cfg.AuthType = "PASSWORD"
    /\ ret.status = "err"
    /\ out = <<Socks4Rejected>>

\* the method list of a SOCKS5 greeting has been read
MethodsRead ==
    /\ hs.version = 5
    /\ spc # "auth5_methods"
    /\ ret.err # "failed to read auth methods"

\* C10: the server expects method 0 under no-auth and method 2 under
\* PASSWORD or KEYAUTH; if the client did not offer it the server writes
\* (5, 255) and fails with nothing further read, otherwise its first frame is
\* (5, expected): a method the client offered and the configured one.
C10_MethodNegotiation ==
    MethodsRead =>
        LET expected == IF cfg.AuthType = "NO_AUTH" THEN 0 ELSE 2
            offered == {hs.methods[i] : i \in 1 .. Len(hs.methods)}
        IN /\ Len(hs.methods) = hs.b1
           /\ IF expected \notin offered
              THEN /\ out = <<Socks5NoMethod>>
                   /\ ret.status = "err"
                   /\ spc = "done"
                   /\ nread = 2 + hs.b1
              ELSE /\ out # <<>>
                   /\ out[1] = <<5, expected>>
                   /\ out[1][2] \in offered

\* C10 witness: under key auth a client offering methods 0 and 2 was
\* answered (5, 2).
C10_Witness ==
    /\ cfg.AuthType = "KEYAUTH"
    /\ hs.methods = <<0, 2>>
    /\ out # <<>>
    /\ out[1] = <<5, 2>>

-----------------------------------------------------------------------------
(* Properties of the request phase, checked under SpecSocks *)

\* bytes of the greeting, the method list, the credential frame if one was
\* read, and the three bytes of the request
BytesThroughRequest ==
    2 + Len(hs.methods)
      + (IF hs.checked = "ok" THEN 2 + Len(hs.username) + 1 + Len(hs.password) ELSE 0)
      + 3

\* the three request bytes of a SOCKS5 handshake have been read
RequestRead == hs.version = 5 /\ hs.checked # "failed" /\ nread >= BytesThroughRequest

\* a success reply of SOCKS5 is among the frames written
SuccessReplyWritten ==
    \E i \in 1 .. Len(out) : Len(out[i]) >= 3 /\ out[i][1] = 5 /\ out[i][2] = 0 /\ out[i][3] = 0

\* the request was turned down with status 7: the reply is the last frame,
\* no success reply was written and no byte of the address was read
Rejected5 ==
    /\ ret.status = "err"
    /\ spc = "done"
    /\ LastFrame = Socks5CmdNotSupported
    /\ ~SuccessReplyWritten
    /\ nread = BytesThroughRequest
    /\ hs.wire = <<>>

\* the request went on to the address as a request of the given command
Accepted5(command) ==
    /\ ret.err \notin {"UDP is not enabled.", "TCP bind is not supported.", "unknown command"}
    /\ \A i \in 1 .. Len(out) : out[i] # Socks5CmdNotSupported
    /\ ret.status = "ok" => ret.request.Command = command
    /\ spc = "done" => \/ ret.status = "ok"
                       \/ ret.err \in {"failed to read address", "write failed"}

\* all reads of a SOCKS4 handshake were completed
Socks4ReadsDone ==
    /\ hs.version = 4
    /\ spc = "done"
    /\ ret.err \notin {"insufficient header", "EOF", "buffer overrun",
                       "failed to read domain for socks 4a"}

\* C11: in the SOCKS5 request CONNECT and the two Tor resolve bytes give a TCP
\* request, UDP ASSOCIATE a UDP request if UDP is enabled and else a reply
\* with status 7 and an error, BIND and every other byte a reply with status
\* 7 and an error; a rejected request has no success reply and its address is
\* not read.  In SOCKS4 only CONNECT succeeds, every other command gets the
\* reply 91 and an error.
C11_CommandHandling ==
    /\ RequestRead =>
         CASE hs.cmd \in {1, 240, 241} -> Accepted5("TCP")
           [] hs.cmd = 3 -> IF cfg.UdpEnabled THEN Accepted5("UDP")
                            ELSE Rejected5 /\ ret.err = "UDP is not enabled."
           [] hs.cmd = 2 -> Rejected5 /\ ret.err = "TCP bind is not supported."
           [] OTHER -> Rejected5 /\ ret.err = "unknown command"
    /\ Socks4ReadsDone =>
         IF hs.b1 = 1 /\ cfg.AuthType # "PASSWORD"
         THEN /\ out = <<Socks4Granted>>
              /\ ret.status = "ok" \/ ret.err = "write failed"
              /\ ret.status = "ok" => ret.request.Command = "TCP"
         ELSE /\ out = <<Socks4Rejected>>
              /\ ret.status = "err"

\* C11 witness: a SOCKS5 BIND was answered with status 7 and nothing more
\* was read.
C11_Witness ==
    /\ RequestRead
    /\ hs.cmd = cmdTCPBind
    /\ ret.err = "TCP bind is not supported."
    /\ LastFrame = Socks5CmdNotSupported

\* the request of a no-auth SOCKS5 handshake was read whole and is well
\* formed: method 0 offered, a supported command, an address and a port
WellFormedNoAuth ==
    /\ cfg.AuthType = "NO_AUTH"
    /\ hs.version = 5
    /\ \E i \in 1 .. Len(hs.methods) : hs.methods[i] = 0
    /\ hs.wire # <<>>

\* C12: a well-formed SOCKS5 request under no-auth succeeds (unless a write
\* fails) with a request of version 5 whose address and port are those the
\* request bytes encode, and the frames written are (5, 0) and then one
\* success reply.
C12_NoAuthSucceeds ==
  /\ (/\ cfg.AuthType = "NO_AUTH"
      /\ MethodsRead
      /\ \E i \in 1 .. Len(hs.methods) : hs.methods[i] = 0
      /\ ~(RequestRead /\ Command5(hs.cmd, cfg) \notin {"TCP", "UDP"})
      /\ ret.status = "err")
     => ret.err \in {"failed to write auth response", "failed to read request",
                     "failed to read address", "write failed"}
  /\ WellFormedNoAuth =>
        /\ spc = "done"
        /\ ret.status = "ok" \/ ret.err = "write failed"
        /\ Len(out) = 2
        /\ out[1] = <<5, 0>>
        /\ SubSeq(out[2], 1, 3) = <<5, 0, 0>>
        /\ ret.status = "ok" =>
             /\ ret.request.Version = 5
             /\ ret.request.Address.family =
                   (CASE hs.wire[1] = 1 -> "ipv4" [] hs.wire[1] = 4 -> "ipv6" [] OTHER -> "domain")
             /\ hs.wire = <<hs.wire[1]>>
                          \o (IF hs.wire[1] = 3 THEN <<Len(ret.request.Address.bytes)>> ELSE <<>>)
                          \o ret.request.Address.bytes
                          \o <<ret.request.Port \div 256, ret.request.Port % 256>>

\* C12 witness: a no-auth CONNECT to the domain "a", port 443, succeeded.
C12_Witness ==
    /\ WellFormedNoAuth
    /\ ret.status = "ok"
    /\ hs.cmd = cmdTCPConnect
    /\ ret.request.Address = [family |-> "domain", bytes |-> <<97>>]
    /\ ret.request.Port = 443
    /\ Len(out) = 2

-----------------------------------------------------------------------------
(* Properties of the direct path, checked under SpecDispatch *)

\* the error proxy.Process returned is or wraps EOF, closed pipe or
\* cancellation
ReturnedBenign ==
    \E i \in 1 .. Len(derr) : derr[i] \in {"EOF", "ErrClosedPipe", "Canceled"}

\* C20: on the direct path an error that is or wraps EOF, closed pipe or
\* cancellation counts as success: nothing is reported and the writer is
\* closed, not interrupted; any other error is reported exactly once and the
\* writer is interrupted, never closed.
C20_BenignErrors ==
    (dpc = "returned" /\ ProcessCalls = 1) =>
        IF derr = <<>> \/ ReturnedBenign
        THEN /\ ErrorsReported = 0
             /\ Count(dlog, "Close(Writer)") = 1
             /\ Count(dlog, "Interrupt(Writer)") = 0
             /\ link.Writer = "closed"
        ELSE /\ ErrorsReported = 1
             /\ Count(dlog, "Interrupt(Writer)") = 1
             /\ Count(dlog, "Close(Writer)") = 0
             /\ link.Writer = "interrupted"

\* C20 witness: a wrapped cancellation ended the direct path with the writer
\* closed and nothing reported.
C20_Witness ==
    /\ dpc = "returned"
    /\ derr = <<"connection ends", "Canceled">>
    /\ dlog = <<"proxy.Process", "Close(Writer)", "Interrupt(Reader)">>
    /\ link.Writer = "closed"

-----------------------------------------------------------------------------
(* Properties of ClientHandshake, checked under SpecClient *)

\* position in cl.rd of the request reply: after the method selection and,
\* with a user, the auth status
RequestReplyAt == IF cl.request.User.present THEN 3 ELSE 2

\* the version bytes the three replies should carry (RFC 1928, RFC 1929; the
\* server of http.go 473-475 and 288-310 writes 1 in the auth status)
MethodReplyVersion == socks5Version
AuthReplyVersion == 1
RequestReplyVersion == socks5Version

\* a reply read so far has a wrong version byte
VersionMismatchRead ==
    \/ Len(cl.rd) >= 1 /\ cl.rd[1][1] # MethodReplyVersion
    \/ cl.request.User.present /\ Len(cl.rd) >= 2 /\ cl.rd[2][1] # AuthReplyVersion
    \/ Len(cl.rd) >= RequestReplyAt /\ cl.rd[RequestReplyAt][1] # RequestReplyVersion

\* the method selected is not the one offered
MethodMismatchRead == Len(cl.rd) >= 1 /\ cl.rd[1][2] # AuthByte(cl.request)

\* the auth status or the reply status read so far is not zero
StatusNonZeroRead ==
    \/ cl.request.User.present /\ Len(cl.rd) >= 2 /\ cl.rd[2][2] # 0
    \/ Len(cl.rd) >= RequestReplyAt /\ cl.rd[RequestReplyAt][2] # 0

\* C13: ClientHandshake fails whenever a reply it read has a wrong version
\* byte (method selection, auth status or request reply), a method other
\* than the one offered, a non-zero auth status or a non-zero reply status;
\* it succeeds only if none of these occurred.
C13_FailsOnEveryMismatch ==
    /\ (VersionMismatchRead \/ MethodMismatchRead \/ StatusNonZeroRead) => cl.ret.status # "ok"
    /\ cl.ret.status = "ok" =>
         ~(VersionMismatchRead \/ MethodMismatchRead \/ StatusNonZeroRead)

\* what the code does check: the version of the method selection, the method
\* and the two status bytes
C13_CheckedMismatches ==
    ((Len(cl.rd) >= 1 /\ cl.rd[1][1] # MethodReplyVersion)
       \/ MethodMismatchRead \/ StatusNonZeroRead)
    => /\ cl.pc = "done"
       /\ cl.ret.status = "err"
       /\ cl.ret.err \in {"unexpected server version", "auth method not supported.",
                          "server rejects account", "server rejects request"}

\* a request reply of version 4 was read and the handshake succeeded
C13_Witness ==
    /\ cl.ret.status = "ok"
    /\ cl.rd[RequestReplyAt][1] = socks4Version

\* C14: when the method selection (of version 5) names a method other than
\* the one offered, ClientHandshake returns the auth-method-not-supported
\* error; when the method differs, whatever the version byte, nothing is
\* written after the greeting of three bytes and nothing more is read.
C14_MethodMismatch ==
    MethodMismatchRead =>
        /\ cl.pc = "done"
        /\ cl.ret.status = "err"
        /\ cl.rd[1][1] = socks5Version => cl.ret.err = "auth method not supported."
        /\ cl.rd[1][1] # socks5Version => cl.ret.err = "unexpected server version"
        /\ cl.out = <<ClientGreeting(cl.request)>>
        /\ Len(cl.out[1]) = 3
        /\ cl.out[1][3] = (IF cl.request.User.present THEN 2 ELSE 0)
        /\ Len(cl.rd) = 1

\* C14 witness: password was offered, the server chose no-auth, the client
\* failed after its greeting.
C14_Witness ==
    /\ cl.request.User.present
    /\ cl.rd = <<<<5, 0>>>>
    /\ cl.ret.err = "auth method not supported."
    /\ cl.out = <<<<5, 1, 2>>>>

\* C14 as stated: every mismatched method byte gives the
\* auth-method-not-supported error.
C14_AlwaysMethodError ==
    MethodMismatchRead =>
        /\ cl.ret.err = "auth method not supported."
        /\ Len(cl.out) = 1

-----------------------------------------------------------------------------
(* Properties of the UDP relay codec, checked under SpecUdp *)

-----------------------------------------------------------------------------
(* Properties of ParseRandomIP, checked under SpecRandom *)

\* the call was made with a prefix length within the family's width
RandomCalled == rip.pc = "done" /\ CIDRParses(rip.addr, rip.prefix)

\* C19: for an IPv4 or IPv6 via address and a prefix length p within the
\* family's width the result is an address of the same family that shares
\* its first p bits with the via address (base <= A < base + 2^(bits - p));
\* the sum never needs more bytes than the family has.
C19_SameFamilyInRange ==
    RandomCalled =>
        /\ rip.res.status = "ok"
        /\ rip.res.address.family = rip.addr.family
        /\ Len(rip.res.address.bytes) = Len(rip.addr.bytes)
        /\ MaskBytes(rip.res.address.bytes, rip.prefix) = MaskBytes(rip.addr.bytes, rip.prefix)

\* what holds of the bytes before they are printed and parsed again: the sum
\* is the base plus the random number, within the range and without carry
C19_SumInRange ==
    RandomCalled =>
        LET sum == AddBytes(MaskBytes(rip.addr.bytes, rip.prefix), rip.rnd)
        IN /\ ~sum.over
           /\ rip.res.status = "ok"
           /\ rip.res.address = IPFromBytes(sum.bytes)
           /\ MaskBytes(sum.bytes, rip.prefix) = MaskBytes(rip.addr.bytes, rip.prefix)
           /\ rip.prefix = 8 * Len(rip.addr.bytes) => sum.bytes = rip.addr.bytes

\* the via address ::fffe:0:0 with prefix 95 gave the IPv4 address 0.0.0.0
C19_Witness ==
    /\ RandomCalled
    /\ rip.addr.family = "ipv6"
    /\ rip.prefix = 95
    /\ rip.res.address = [family |-> "ipv4", bytes |-> <<0, 0, 0, 0>>]

-----------------------------------------------------------------------------
(* Properties of Handler.Dial, checked under SpecDial *)

DialCalls(name) == Cardinality({i \in 1 .. Len(dl.calls) : dl.calls[i].call = name})

\* Dial has gone past its first step
DialEntered == dl.pc \notin {"idle", "start"}

\* the last outbound record of the flow, now and when Dial was called
LastOutbound == dl.outbounds[Len(dl.outbounds)]
LastOutbound0 == dl.outbounds0[Len(dl.outbounds0)]

\* C16: with a chain tag the manager knows, Dial starts exactly one nested
\* Dispatch, on the uplink reader and the downlink writer, in a context whose
\* outbound list is the caller's with the record {dest, tag} appended, makes
\* no transport dial and returns a connection whether or not that Dispatch
\* has ended; with a tag the manager does not know Dial starts no Dispatch
\* and goes on to the via rule and getUoTConnection.
C16_ChainByTag ==
    /\ (DialEntered /\ ~dl.ss.nil /\ dl.ss.Tag = "up") =>
         /\ dl.pc \in {"chained", "returned"}
         /\ DialCalls("go handler.Dispatch") = 1
         /\ Len(dl.calls) = 1
         /\ dl.nested.state \in {"running", "done"}
         /\ dl.nested.Reader = "uplinkReader"
         /\ dl.nested.Writer = "downlinkWriter"
         /\ dl.nested.outbounds =
              dl.outbounds0 \o <<[Target |-> dl.dest, Tag |-> "up",
                                  Gateway |-> NoAddress, Conn |-> NoConn]>>
         /\ dl.outbounds = dl.outbounds0
         /\ dl.pc = "returned" => ~dl.conn.nil /\ dl.conn.kind = "chain" /\ dl.err = ""
    /\ (DialEntered /\ ~dl.ss.nil /\ dl.ss.Tag = "ghost") =>
         /\ DialCalls("go handler.Dispatch") = 0
         /\ dl.nested.state = "none"
         /\ dl.pc \in {"uot", "dialing", "returned", "panicked"}
         /\ dl.pc # "panicked" => dl.calls[1].call = "getUoTConnection"
         /\ dl.err \in {"", "uot failed", "dial failed"}

\* C16 witness: Dial has returned the chained connection while the nested
\* Dispatch is still running.
C16_Witness ==
    /\ dl.pc = "returned"
    /\ dl.ss.Tag = "up"
    /\ dl.nested.state = "running"
    /\ dl.conn.kind = "chain"
    /\ Len(dl.outbounds0) = 2
    /\ Len(dl.nested.outbounds) = 3

\* a via address is configured and chain-by-tag did not apply
ViaApplies == DialEntered /\ ~dl.ss.nil /\ ~dl.ss.Via.nil /\ dl.ss.Tag # "up"

\* the addresses the "origin" rule can decode from the emails
DecodedAddrs ==
    {[family |-> "ipv4", bytes |-> <<192, 0, 2, 7>>],
     [family |-> "ipv6", bytes |-> <<32, 1, 13, 184, 0, 0, 0, 0, 0, 0, 0, 0, 0, 0, 0, 5>>]}

\* C17: with a via address Dial applies the first rule that matches of (a)
\* CIDR, (b) domain "origin", (c) domain "srcip", (d) the literal address;
\* the address goes to the Gateway of the last outbound record and nowhere
\* else, and getUoTConnection and internet.Dial get the dest of the call.
C17_EgressPrecedence ==
    ViaApplies =>
        /\ dl.pc # "panicked" =>
             /\ Len(dl.outbounds) = Len(dl.outbounds0)
             /\ \A i \in 1 .. Len(dl.outbounds) - 1 : dl.outbounds[i] = dl.outbounds0[i]
             /\ LastOutbound.Target = LastOutbound0.Target
             /\ LastOutbound.Tag = LastOutbound0.Tag
             /\ dl.pc \in {"uot", "dialing"} => LastOutbound.Conn = LastOutbound0.Conn
             /\ \A i \in 1 .. Len(dl.calls) : dl.calls[i].dest = dl.dest
             /\ Len(dl.calls) >= 1 /\ dl.calls[1].call = "getUoTConnection"
             /\ Len(dl.calls) >= 2 => dl.calls[2].call = "internet.Dial"
             /\ CASE ~dl.ss.ViaCidr.empty ->
                       /\ LastOutbound.Gateway.family = dl.ss.Via.address.family
                       /\ MaskBytes(LastOutbound.Gateway.bytes, dl.ss.ViaCidr.prefix)
                            = MaskBytes(dl.ss.Via.address.bytes, dl.ss.ViaCidr.prefix)
                  [] dl.ss.Via.address.bytes = DomainOrigin /\ dl.ss.Via.address.family = "domain" ->
                       LastOutbound.Gateway \in {NoAddress, LocalAddr} \cup DecodedAddrs
                  [] dl.ss.Via.address.bytes = DomainSrcip /\ dl.ss.Via.address.family = "domain" ->
                       LastOutbound.Gateway =
                           (IF ~dl.inbound.nil /\ ~dl.inbound.Conn.nil /\ dl.inbound.Conn.splits
                            THEN RemoteAddr ELSE NoAddress)
                  [] OTHER -> LastOutbound.Gateway = dl.ss.Via.address
        /\ dl.pc = "panicked" =>
             \/ ~dl.ss.ViaCidr.empty /\ ~CIDRParses(dl.ss.Via.address, dl.ss.ViaCidr.prefix)
             \/ /\ dl.ss.ViaCidr.empty
                /\ dl.ss.Via.address.bytes = DomainOrigin
                /\ ~dl.inbound.nil /\ dl.inbound.User.nil

\* C17 witness: via 10.1.2.3 with CIDR 24 gave the gateway 10.1.2.255 on the
\* second of two outbound records and the transport dial was asked for dest.
C17_Witness ==
    /\ ViaApplies
    /\ dl.pc = "dialing"
    /\ dl.ss.ViaCidr.prefix = 24
    /\ Len(dl.outbounds) = 2
    /\ dl.outbounds[2].Gateway = [family |-> "ipv4", bytes |-> <<10, 1, 2, 255>>]
    /\ dl.outbounds[1].Gateway = RemoteAddr
    /\ dl.calls[2] = [call |-> "internet.Dial", dest |-> dl.dest]

\* the "origin" rule applies and the inbound session, which has a connection
\* with a local address, carries no identity that decodes to an IP
OriginUndecodable ==
    /\ ViaApplies
    /\ dl.ss.ViaCidr.empty
    /\ dl.ss.Via.address = [family |-> "domain", bytes |-> DomainOrigin]
    /\ ~dl.inbound.nil
    /\ ~dl.inbound.Conn.nil /\ dl.inbound.Conn.splits
    /\ \/ dl.inbound.User.nil
       \/ dl.inbound.User.Email.kind \in {"empty", "plain"}
       \/ dl.inbound.User.Email.kind = "ipv4_" /\ Len(dl.inbound.User.Email.parts) < 4
       \/ dl.inbound.User.Email.kind = "ipv6_" /\ Len(dl.inbound.User.Email.parts) < 8

\* C18: in "origin" mode, when the inbound record has no user, an empty
\* email, an email without prefix or one with too few groups, Dial completes
\* normally and the gateway is the inbound connection's local address.
C18_OriginFallsBack ==
    OriginUndecodable =>
        /\ dl.pc # "panicked"
        /\ LastOutbound.Gateway = dl.inbound.Conn.Local

\* what holds: the local address is the gateway when there is a user whose
\* email is empty or has no prefix
C18_FallbackWithUser ==
    (OriginUndecodable /\ ~dl.inbound.User.nil
       /\ dl.inbound.User.Email.kind \in {"empty", "plain"})
    => dl.pc # "panicked" /\ LastOutbound.Gateway = LocalAddr

\* Dial panicked in "origin" mode for an inbound record without user
C18_Witness ==
    /\ OriginUndecodable
    /\ dl.inbound.User.nil
    /\ dl.pc = "panicked"

-----------------------------------------------------------------------------
(* Properties of DecodeUDPPacket on arriving datagrams, checked under SpecUdp *)

\* C24: DecodeUDPPacket fails for every packet of fewer than five bytes and
\* for every packet whose byte 2 is not zero, whatever bytes 0 and 1 are, and
\* then leaves the packet buffer as it was; for a packet with byte 2 zero and
\* a well-formed address it takes exactly the three bytes of the prefix, the
\* address and the port.
C24_DecodeFailures ==
    ud.pc = "done" =>
        /\ Len(ud.packet) < 5 =>
             /\ ud.res.status = "err"
             /\ ud.res.err = "insufficient length of packet."
             /\ ud.res.rest = ud.packet
        /\ (Len(ud.packet) >= 5 /\ ud.packet[3] # 0) =>
             /\ ud.res.status = "err"
             /\ ud.res.err = "discarding fragmented payload."
             /\ ud.res.rest = ud.packet
        /\ (Len(ud.packet) >= 5 /\ ud.packet[3] = 0) =>
             \/ ud.res.status = "err" /\ ud.res.err = "failed to read UDP header"
             \/ /\ ud.res.status = "ok"
                /\ ud.packet = SubSeq(ud.packet, 1, 3)
                               \o WriteAddressPort(ud.res.request.Address, ud.res.request.Port)
                               \o ud.res.rest
        /\ (Len(ud.packet) >= 10 /\ ud.packet[3] = 0 /\ ud.packet[4] = 1) =>
             /\ ud.res.status = "ok"
             /\ Len(ud.packet) - Len(ud.res.rest) = 3 + 1 + 4 + 2

\* C24 witness: an arriving packet with bytes 0 and 1 set and fragment
\* number 2 was refused and left as it was.
C24_Witness ==
    /\ ud.pc = "done"
    /\ ~ud.encoded
    /\ ud.packet = <<7, 8, 2, 1, 1, 2, 3, 4, 0, 80>>
    /\ ud.res.err = "discarding fragmented payload."
    /\ ud.res.rest = ud.packet

-----------------------------------------------------------------------------
(* Properties of the transport dial of Handler.Dial, checked under SpecDial *)

\* C28: when the transport dial fails Dial returns the error and no
\* connection, and no connection is recorded on the last outbound record,
\* with or without counters; a connection is recorded only when the dial
\* succeeded.
C28_NoConnectionOnFailure ==
    /\ dl.err = "dial failed" => dl.conn.nil /\ LastOutbound.Conn.nil
    /\ (dl.pc = "returned" /\ ~LastOutbound.Conn.nil) =>
         dl.err = "" /\ LastOutbound.Conn.inner

\* what holds: without counters a failed dial returns and records nil; with
\* counters it returns and records a counter connection around nil
C28_FailureByCounters ==
    dl.err = "dial failed" =>
        /\ dl.conn = LastOutbound.Conn
        /\ ~dl.counters => dl.conn.nil
        /\ dl.counters => ~dl.conn.nil /\ dl.conn.counted /\ ~dl.conn.inner

\* a failed dial with counters left a connection on the outbound record
C28_Witness ==
    /\ dl.pc = "returned"
    /\ dl.err = "dial failed"
    /\ dl.counters
    /\ ~LastOutbound.Conn.nil

-----------------------------------------------------------------------------
(* Properties of the SOCKS5 success reply, checked under SpecSocks *)

\* the success replies among the frames written
SuccessReplies ==
    {i \in 1 .. Len(out) : Len(out[i]) >= 3 /\ out[i][1] = 5 /\ out[i][2] = 0 /\ out[i][3] = 0}

\* C23: the success reply of a SOCKS5 handshake carries, for UDP ASSOCIATE,
\* the configured relay address if there is one and else the inbound
\* connection's local address, for CONNECT and the Tor bytes the session's
\* own address, and always the session's port; a successful handshake wrote
\* exactly one success reply, as its last frame.
C23_BindAddress ==
    (hs.version = 5 /\ ret.status = "ok") =>
        /\ SuccessReplies = {Len(out)}
        /\ LastFrame =
             <<5, 0, 0>>
             \o WriteAddressPort(
                  IF hs.cmd = cmdUDPAssociate
                  THEN (IF cfg.Address # NoAddress THEN cfg.Address ELSE cfg.localAddress)
                  ELSE cfg.address,
                  cfg.port)
        /\ hs.cmd = cmdUDPAssociate <=> ret.request.Command = "UDP"

\* C23 witness: a UDP ASSOCIATE without configured relay address was
\* answered with the local address 8.8.8.8 and the port 1080.
C23_Witness ==
    /\ hs.version = 5
    /\ ret.status = "ok"
    /\ hs.cmd = cmdUDPAssociate
    /\ cfg.Address = NoAddress
    /\ LastFrame = <<5, 0, 0, 1, 8, 8, 8, 8, 4, 56>>

-----------------------------------------------------------------------------
(* Properties of NewHandler, checked under SpecDispatch *)

\* C21: with multiplexing enabled the TCP pool is present but disabled for
\* concurrency < 0, enabled with 8 for 0 and enabled with the value for > 0;
\* the xudp pool is present but disabled for xudpConcurrency < 0, absent for
\* 0 and enabled with the value for > 0; every enabled pool has 128 as max
\* connections.  Without multiplexing enabled there is no pool and no
\* UDP/443 policy.
C21_TriState ==
    dpc # "unused" =>
      IF ms.present /\ ms.Enabled
      THEN /\ h.mux.present
           /\ ms.Concurrency < 0 => ~h.mux.Enabled
           /\ ms.Concurrency = 0 => h.mux.Enabled /\ h.mux.MaxConcurrency = 8
           /\ ms.Concurrency > 0 => h.mux.Enabled /\ h.mux.MaxConcurrency = ms.Concurrency
           /\ ms.XudpConcurrency < 0 => h.xudp.present /\ ~h.xudp.Enabled
           /\ ms.XudpConcurrency = 0 => ~h.xudp.present
           /\ ms.XudpConcurrency > 0 =>
                h.xudp.present /\ h.xudp.Enabled /\ h.xudp.MaxConcurrency = ms.XudpConcurrency
           /\ h.mux.Enabled => h.mux.MaxConnection = 128
           /\ h.xudp.present /\ h.xudp.Enabled => h.xudp.MaxConnection = 128
           /\ h.udp443 = ms.XudpProxyUDP443
      ELSE /\ ~h.mux.present
           /\ ~h.xudp.present
           /\ h.udp443 = ""

\* C21 witness: concurrency 0 and xudpConcurrency 0 gave a TCP pool of 8 and
\* no xudp pool, and a flow went through the handler.
C21_Witness ==
    /\ ms.present /\ ms.Enabled
    /\ ms.Concurrency = 0 /\ ms.XudpConcurrency = 0
    /\ h.mux.Enabled /\ h.mux.MaxConcurrency = 8
    /\ ~h.xudp.present
    /\ dpc = "returned"

-----------------------------------------------------------------------------
(* Properties of Handler.Close, checked under SpecClose *)

\* obj was closed by the i-th call
ClosedAt(obj, i) == i \in 1 .. Len(hc.calls) /\ hc.calls[i].obj = obj

\* C22: after Close every pool the handler has (mux and xudp) has been
\* closed, the proxy has been closed after them, and Close returned nil even
\* if a close failed.
C22_ClosesEveryPool ==
    hc.pc = "returned" =>
        /\ hc.ret = "nil"
        /\ hc.h.mux.present => \E i \in 1 .. Len(hc.calls) : ClosedAt("mux", i)
        /\ hc.h.xudp.present => \E i \in 1 .. Len(hc.calls) : ClosedAt("xudp", i)
        /\ ClosedAt("proxy", Len(hc.calls))

\* what holds: the mux pool, then the proxy, nothing else, and nil whatever
\* the two closes returned
C22_MuxThenProxy ==
    hc.pc = "returned" =>
        /\ hc.ret = "nil"
        /\ Len(hc.calls) = 2
        /\ ClosedAt("mux", 1)
        /\ hc.calls[1].present = hc.h.mux.present
        /\ ClosedAt("proxy", 2)

\* Close returned with an enabled xudp pool that no call has closed
C22_Witness ==
    /\ hc.pc = "returned"
    /\ hc.h.xudp.present /\ hc.h.xudp.Enabled
    /\ \A i \in 1 .. Len(hc.calls) : hc.calls[i].obj # "xudp"

-----------------------------------------------------------------------------
(* Properties of UDPWriter.WriteMultiBuffer, checked under SpecWriter *)

\* the datagram the claim expects for chunk j: the chunk's own destination
\* if it has one, the writer's request header otherwise
ExpectedDatagram(j) ==
    LET b == uw.chunks[j]
    IN <<0, 0, 0>>
       \o (IF b.UDP.nil THEN WriteAddressPort(uw.Request.Address, uw.Request.Port)
           ELSE WriteAddressPort(b.UDP.Address, b.UDP.Port))
       \o b.data

\* C25: WriteMultiBuffer writes one datagram per chunk, in the order of the
\* chunks, with the chunk's destination as header if it has one and the
\* writer's request otherwise; at the first encode or write error it returns
\* the error, writes no later chunk and what was written stays written.
C25_OneDatagramPerChunk ==
    /\ Len(uw.written) <= Len(uw.chunks)
    /\ \A j \in 1 .. Len(uw.written) : uw.written[j] = ExpectedDatagram(j)
    /\ uw.pc = "loop" => Len(uw.written) + Len(uw.mb) = Len(uw.chunks)
    /\ (uw.pc = "returned" /\ uw.err = "") => Len(uw.written) = Len(uw.chunks)
    /\ (uw.pc = "returned" /\ uw.err # "") =>
         /\ Len(uw.written) < Len(uw.chunks)
         /\ uw.err = "address not written" <=>
              (~uw.chunks[Len(uw.written) + 1].UDP.nil
                 /\ uw.chunks[Len(uw.written) + 1].UDP.Address = NoAddress)
    /\ \A j \in 1 .. Len(uw.chunks) :
         (~uw.chunks[j].UDP.nil /\ uw.chunks[j].UDP.Address = NoAddress)
           => Len(uw.written) < j

\* C25 witness: of three chunks the first went out under the writer's
\* header, the second under its own destination, and the write of the third
\* failed.
C25_Witness ==
    /\ uw.pc = "returned"
    /\ uw.err = "write failed"
    /\ Len(uw.chunks) = 3
    /\ uw.chunks[1].UDP.nil
    /\ uw.written = <<<<0, 0, 0, 3, 1, 97, 1, 187, 7>>, <<0, 0, 0, 1, 8, 8, 8, 8, 0, 53>>>>

-----------------------------------------------------------------------------
(* Properties of the username/password frame, checked under SpecCred *)

\* C27: in the frame ClientHandshake writes, ULEN is the number of username
\* bytes that follow it and PLEN the number of password bytes that follow it,
\* for every account, and ReadUsernamePassword recovers the account's
\* username and password.  (Violated: the length bytes are byte(len(...)).)
C27_LengthBytes ==
    /\ cr.pc \in {"written", "read"} =>
         LET ulen == Len(cr.account.Username)
             plen == Len(cr.account.Password)
         IN /\ cr.frame[2] = ulen
            /\ Slice(cr.frame, 2, ulen) = cr.account.Username
            /\ cr.frame[2 + ulen + 1] = plen
            /\ Slice(cr.frame, 2 + ulen + 1, plen) = cr.account.Password
            /\ Len(cr.frame) = 2 + ulen + 1 + plen
    /\ cr.pc = "read" =>
         /\ cr.res.ok
         /\ cr.res.username = cr.account.Username
         /\ cr.res.password = cr.account.Password

\* What holds: the claim for accounts whose username and password are at
\* most 255 bytes long; for longer ones the server never recovers the
\* account.
C27_ShortAccounts ==
    cr.pc = "read" =>
      ((Len(cr.account.Username) <= 255 /\ Len(cr.account.Password) <= 255)
         <=> (/\ cr.res.ok
              /\ cr.res.username = cr.account.Username
              /\ cr.res.password = cr.account.Password
              /\ cr.res.n = Len(cr.frame)))

\* C27 witness: a username of 256 bytes went out under ULEN 0, and the server
\* read an empty username and 117 bytes of the username as the password.
C27_Witness ==
    /\ cr.pc = "read"
    /\ Len(cr.account.Username) = 256
    /\ cr.account.Password = <<112>>
    /\ cr.frame[2] = 0
    /\ cr.res.ok
    /\ cr.res.username = <<>>
    /\ cr.res.password = Repeat(117, 117)

-----------------------------------------------------------------------------
(* Properties of the two handshakes run against each other, checked under
   SpecPair *)

PairDone == spc = "done" /\ cl.pc = "done"

\* the two results agree, and a CONNECT reaches the server as it was asked
PairAgree ==
    PairDone =>
      /\ (cl.ret.status = "ok") <=> (ret.status = "ok")
      /\ (ret.status = "ok" /\ cl.request.Command = "TCP") =>
           /\ ret.request.Command = "TCP"
           /\ ret.request.Address = cl.request.Address
           /\ ret.request.Port = cl.request.Port

=============================================================================
